---------------------------- MODULE Spec2Model ----------------------------
(***************************************************************************)
(* Column-count reconciliation and line repair of cres-validation          *)
(* (src/cres_validation/columns_number_validator.py).                      *)
(*                                                                         *)
(* Text is a sequence of one-character strings.  A file is the sequence of *)
(* its physical lines as Python's line iteration with newline="" yields    *)
(* them: every line keeps its terminator ("\n", "\r" or "\r","\n"), only   *)
(* the last line of a file may lack one.  The token "xE9" stands for the   *)
(* byte 0xE9, which is no valid UTF-8 sequence on its own and decodes to   *)
(* the character "U+E9" under latin-1.                                     *)
(***************************************************************************)
EXTENDS Integers, Sequences, FiniteSets, TLC

(***************************************************************************)
(* Bounds of the model.                                                    *)
(***************************************************************************)
MaxLines == 3
\* the longest line given to count_columns_in_line_fast on its own
MaxLineLen == 5
\* the most files of a batch of main
MaxFiles == 2
\* the longest file of the calls of correct_csv on a varied file system, in lines
MaxFsLines == 2
\* the largest expected width the two repair loops are compared under
MaxWidth == 4

(***************************************************************************)
(* Python values.                                                          *)
(***************************************************************************)
\* None for an int-valued variable (field counts are >= 1 when set)
NoneInt == 0
\* None for a str-valued variable (a held line is never the empty string)
NoneStr == << >>

LF == "\n"
CR == "\r"
QUOTE == "\""
APOS == "'"

\* str.isspace() on the characters of the model's alphabet
IsSpace(c) == c \in {" ", "\t", LF, CR}

Uppers == <<"A","B","C","D","E","F","G","H","I","J","K","L","M",
            "N","O","P","Q","R","S","T","U","V","W","X","Y","Z">>
Lowers == <<"a","b","c","d","e","f","g","h","i","j","k","l","m",
            "n","o","p","q","r","s","t","u","v","w","x","y","z">>

\* str.lower() on one character
LowerChar(c) ==
    IF \E i \in 1..Len(Uppers) : Uppers[i] = c
    THEN Lowers[CHOOSE i \in 1..Len(Uppers) : Uppers[i] = c]
    ELSE c

\* str.lower()
Lower(s) == [i \in 1..Len(s) |-> LowerChar(s[i])]

\* s.rstrip("\n\r")
RECURSIVE RStripNL(_)
RStripNL(s) ==
    IF Len(s) > 0 /\ s[Len(s)] \in {LF, CR}
    THEN RStripNL(SubSeq(s, 1, Len(s) - 1))
    ELSE s

\* not s.strip()  (s is empty or whitespace only)
IsBlank(s) == \A i \in 1..Len(s) : IsSpace(s[i])

\* s.startswith(c) for a one-character c
StartsWith(s, c) == Len(s) >= 1 /\ s[1] = c

\* sub in s
Contains(s, sub) ==
    \E i \in 0..(Len(s) - Len(sub)) :
        \A j \in 1..Len(sub) : s[i + j] = sub[j]

\* s.count(c) for a one-character c
CountChar(s, c) == Cardinality({i \in 1..Len(s) : s[i] = c})

\* delimiter.join(parts)
RECURSIVE Join(_, _)
Join(parts, sep) ==
    IF Len(parts) = 0 THEN << >>
    ELSE IF Len(parts) = 1 THEN parts[1]
    ELSE parts[1] \o <<sep>> \o Join(Tail(parts), sep)

\* s.split(delimiter)
RECURSIVE Split(_, _)
Split(s, d) ==
    IF \E i \in 1..Len(s) : s[i] = d
    THEN LET i == CHOOSE k \in 1..Len(s) :
                      s[k] = d /\ \A m \in 1..(k - 1) : s[m] # d
         IN <<SubSeq(s, 1, i - 1)>> \o Split(SubSeq(s, i + 1, Len(s)), d)
    ELSE <<s>>

(***************************************************************************)
(* csv.reader([line], delimiter=d) with the default dialect (quotechar '"',*)
(* doublequote, no escapechar, not strict): the parser automaton of the    *)
(* standard library, run over one line.  The parser state is               *)
(* [st, fields, cur]; st is "ERROR" once the parser has raised csv.Error:  *)
(* on a character other than a line break after a line break outside a    *)
(* quoted field ("new-line character seen in unquoted field"), on a        *)
(* character added to a field of field_size_limit characters ("field       *)
(* larger than field limit").                                              *)
(***************************************************************************)
\* csv.field_size_limit(): the longest field the parser accepts
field_size_limit == 131072

CsvChar(p, c, d) ==
    LET save_field(st) == [st |-> st, fields |-> Append(p.fields, p.cur), cur |-> << >>]
        add_char(st) == IF Len(p.cur) >= field_size_limit
                        THEN [p EXCEPT !.st = "ERROR"]
                        ELSE [p EXCEPT !.st = st, !.cur = Append(p.cur, c)]
    IN CASE p.st = "ERROR" -> p
         [] p.st = "START_RECORD" ->
               IF c \in {LF, CR} THEN [p EXCEPT !.st = "EAT_CRNL"]
               ELSE IF c = QUOTE THEN [p EXCEPT !.st = "IN_QUOTED_FIELD"]
               ELSE IF c = d THEN save_field("START_FIELD")
               ELSE add_char("IN_FIELD")
         [] p.st = "START_FIELD" ->
               IF c \in {LF, CR} THEN save_field("EAT_CRNL")
               ELSE IF c = QUOTE THEN [p EXCEPT !.st = "IN_QUOTED_FIELD"]
               ELSE IF c = d THEN save_field("START_FIELD")
               ELSE add_char("IN_FIELD")
         [] p.st = "IN_FIELD" ->
               IF c \in {LF, CR} THEN save_field("EAT_CRNL")
               ELSE IF c = d THEN save_field("START_FIELD")
               ELSE add_char("IN_FIELD")
         [] p.st = "IN_QUOTED_FIELD" ->
               IF c = QUOTE THEN [p EXCEPT !.st = "QUOTE_IN_QUOTED_FIELD"]
               ELSE add_char("IN_QUOTED_FIELD")
         [] p.st = "QUOTE_IN_QUOTED_FIELD" ->
               IF c = QUOTE THEN add_char("IN_QUOTED_FIELD")
               ELSE IF c = d THEN save_field("START_FIELD")
               ELSE IF c \in {LF, CR} THEN save_field("EAT_CRNL")
               ELSE add_char("IN_FIELD")
         [] p.st = "EAT_CRNL" ->
               IF c \in {LF, CR} THEN p ELSE [p EXCEPT !.st = "ERROR"]

\* the parser after the characters of s, each read as CsvChar reads it.
\* CsvRun reads the first character of s; CsvAdd reads the n characters
\* that follow it when none of them is a quote, a delimiter or a line break
\* and the parser is inside a field: they are added to the field as long
\* as the field limit allows, and the first one over the limit raises.
RECURSIVE CsvRun(_, _, _)
CsvAdd(q, rest, n, d) ==
    IF q.st \notin {"IN_FIELD", "IN_QUOTED_FIELD"} THEN CsvRun(q, rest, d)
    ELSE CsvRun(IF n > field_size_limit - Len(q.cur)
                THEN [q EXCEPT !.st = "ERROR",
                               !.cur = @ \o SubSeq(rest, 1, field_size_limit - Len(q.cur))]
                ELSE [q EXCEPT !.cur = @ \o SubSeq(rest, 1, n)],
                SubSeq(rest, n + 1, Len(rest)), d)

CsvRun(p, s, d) ==
    IF Len(s) = 0 THEN p
    ELSE LET stops == {k \in 2..Len(s) : s[k] \in {QUOTE, d, LF, CR}}
             n == IF stops = {} THEN Len(s) - 1
                  ELSE (CHOOSE k \in stops : \A m \in stops : k <= m) - 2
         IN CsvAdd(CsvChar(p, s[1], d), Tail(s), n, d)

\* next(csv.reader([s], delimiter=d)) raises csv.Error
CsvFails(s, d) ==
    CsvRun([st |-> "START_RECORD", fields |-> << >>, cur |-> << >>], s, d).st = "ERROR"

\* next(csv.reader([s], delimiter=d)) when it does not raise: the list of
\* fields of the line; the end of the line ends the field being read, if any
CsvRow(s, d) ==
    LET p == CsvRun([st |-> "START_RECORD", fields |-> << >>, cur |-> << >>], s, d)
    IN IF p.st \in {"START_RECORD", "EAT_CRNL"} THEN p.fields ELSE Append(p.fields, p.cur)

\* count_columns_in_line_fast(line, delimiter)
\* mutant: a space separates fields as the delimiter does
count_columns_in_line_fast_mut_space(line, delimiter) ==
    CountChar(line, delimiter) + CountChar(line, " ") + 1

\* mutant: the quote-aware path is never taken
count_columns_in_line_fast_mut_noquote(line, delimiter) == CountChar(line, delimiter) + 1

count_columns_in_line_fast(line, delimiter) ==
    IF (\E i \in 1..Len(line) : line[i] = QUOTE) \/ (\E i \in 1..Len(line) : line[i] = APOS)
    THEN IF CsvFails(line, delimiter)
         THEN CountChar(line, delimiter) + 1
         ELSE Len(CsvRow(line, delimiter))
    ELSE CountChar(line, delimiter) + 1

\* the header test applied to the first line (the same expression in all passes)
IsHeader(stripped, delimiter) ==
    /\ (StartsWith(stripped, delimiter) \/ StartsWith(stripped, ";"))
    /\ (Contains(Lower(stripped), <<"m","a","t","r","i","c","u","l">>)
        \/ Contains(Lower(stripped), <<"c","i","n">>))

(***************************************************************************)
(* Decoding and encoding.  ASCII decodes to itself under both encodings;   *)
(* the byte 0xE9 raises UnicodeDecodeError under utf-8 and is U+E9 under   *)
(* latin-1.                                                                *)
(***************************************************************************)
FALLBACK == "latin-1"

Decodable(bytes, enc) == enc = FALLBACK \/ \A i \in 1..Len(bytes) : bytes[i] # "xE9"

\* the text of a line that is decodable under enc
Decode(bytes, enc) ==
    [i \in 1..Len(bytes) |-> IF bytes[i] = "xE9" /\ enc = FALLBACK THEN "U+E9" ELSE bytes[i]]

Encode(text, enc) ==
    [i \in 1..Len(text) |-> IF text[i] = "U+E9" /\ enc = FALLBACK THEN "xE9" ELSE text[i]]

\* index of the first line of f that raises under enc, 0 if none does
FirstBad(f, enc) ==
    IF \E i \in 1..Len(f) : ~Decodable(f[i], enc)
    THEN CHOOSE i \in 1..Len(f) :
             ~Decodable(f[i], enc) /\ \A j \in 1..(i - 1) : Decodable(f[j], enc)
    ELSE 0

(***************************************************************************)
(* collections.Counter, in insertion order: a sequence of <<key, count>>.  *)
(***************************************************************************)
CounterKeys(cn) == {cn[i][1] : i \in 1..Len(cn)}

CounterGet(cn, k) ==
    IF k \in CounterKeys(cn)
    THEN cn[CHOOSE i \in 1..Len(cn) : cn[i][1] = k][2]
    ELSE 0

\* counter[k] += 1
\* mutant: the count of a key is set to 1, not incremented
CounterInc_mut_set_one(cn, k) ==
    IF \E i \in 1..Len(cn) : cn[i][1] = k
    THEN [i \in 1..Len(cn) |-> IF cn[i][1] = k THEN <<k, 1>> ELSE cn[i]]
    ELSE Append(cn, <<k, 1>>)

CounterInc(cn, k) ==
    IF k \in CounterKeys(cn)
    THEN [i \in 1..Len(cn) |-> IF cn[i][1] = k THEN <<k, cn[i][2] + 1>> ELSE cn[i]]
    ELSE Append(cn, <<k, 1>>)

\* mutant: among the keys of maximal count, the largest one
MostCommon_mut_largest(cn) ==
    CHOOSE k \in {cn[i][1] : i \in 1..Len(cn)} :
        /\ \E i \in 1..Len(cn) :
               cn[i][1] = k /\ \A j \in 1..Len(cn) : cn[j][2] <= cn[i][2]
        /\ \A i \in 1..Len(cn) :
               (\A j \in 1..Len(cn) : cn[j][2] <= cn[i][2]) => cn[i][1] <= k

\* counter.most_common(1)[0][0]: the first key, in insertion order, of maximal count
MostCommon(cn) ==
    cn[CHOOSE i \in 1..Len(cn) :
           /\ \A j \in 1..Len(cn) : cn[j][2] <= cn[i][2]
           /\ \A j \in 1..(i - 1) : cn[j][2] < cn[i][2]][1]

\* max(counter.keys())
MaxKey(cn) == CHOOSE k \in CounterKeys(cn) : \A m \in CounterKeys(cn) : m <= k

\* sum(counter.values())
RECURSIVE CounterTotal(_)
CounterTotal(cn) == IF Len(cn) = 0 THEN 0 ELSE cn[1][2] + CounterTotal(Tail(cn))

(***************************************************************************)
(* Pass 1: analyze_csv_columns.read_file_with_encoding.                    *)
(***************************************************************************)
\* the locals as read_file_with_encoding sets them on entry
freq_init ==
    [column_counter |-> << >>, header_columns |-> NoneInt,
     total_lines |-> 0, empty_lines |-> 0, is_first_line |-> TRUE]

\* mutant: the counter of the failed attempt is not cleared
read_file_with_encoding_entry_mut_noclear(st) ==
    [freq_init EXCEPT !.column_counter = st.column_counter]

\* entry of read_file_with_encoding over the state a previous attempt left
read_file_with_encoding_entry(st) == freq_init

\* one iteration of the loop over the lines
freq_line(st, line, delimiter) ==
    LET stripped == RStripNL(line) IN
    IF IsBlank(stripped)
    THEN [st EXCEPT !.empty_lines = @ + 1]
    ELSE IF st.is_first_line /\ IsHeader(stripped, delimiter)
    THEN [st EXCEPT !.header_columns = count_columns_in_line_fast(stripped, delimiter),
                    !.is_first_line = FALSE]
    ELSE [st EXCEPT !.is_first_line = FALSE,
                    !.total_lines = @ + 1,
                    !.column_counter =
                        CounterInc(@, count_columns_in_line_fast(stripped, delimiter))]

\* mutant: a distribution of a single width is taken for an empty one
is_empty_input_mut_single(cn) == Len(cn) <= 1

\* not column_counter: the distribution is empty after pass 1
is_empty_input(cn) == cn = << >>

\* expected_columns as analyze_csv_columns resolves it
resolve_expected(cn, use_most_frequent) ==
    IF use_most_frequent THEN MostCommon(cn) ELSE MaxKey(cn)

(***************************************************************************)
(* Pass 2: analyze_csv_columns.find_problematic_lines.  problematic_lines  *)
(* is a dict in insertion order: a sequence of <<line_num, col_count>>.    *)
(***************************************************************************)
locate_init == [problematic_lines |-> << >>, current_line |-> 0, is_first_line |-> TRUE]

find_problematic_lines_entry(st) == locate_init

\* problematic_lines[line_num] = col_count
DictSet(dct, k, v) ==
    IF \E i \in 1..Len(dct) : dct[i][1] = k
    THEN [i \in 1..Len(dct) |-> IF dct[i][1] = k THEN <<k, v>> ELSE dct[i]]
    ELSE Append(dct, <<k, v>>)

DictKeys(dct) == {dct[i][1] : i \in 1..Len(dct)}

\* mutant: the header is not allowed its one column more
header_is_problematic_mut_strict(header_cols, expected_columns) ==
    header_cols # expected_columns

\* the header is recorded as problematic
header_is_problematic(header_cols, expected_columns) ==
    header_cols # expected_columns /\ header_cols # expected_columns + 1

locate_line(st, line_num, line, delimiter, expected_columns) ==
    LET stripped == RStripNL(line)
        cols == count_columns_in_line_fast(stripped, delimiter)
    IN
    IF IsBlank(stripped)
    THEN st
    ELSE IF st.is_first_line /\ IsHeader(stripped, delimiter)
    THEN [st EXCEPT !.is_first_line = FALSE,
                    !.problematic_lines =
                        IF header_is_problematic(cols, expected_columns)
                        THEN DictSet(@, line_num, cols) ELSE @]
    ELSE [st EXCEPT !.is_first_line = FALSE,
                    !.current_line = @ + 1,
                    !.problematic_lines =
                        IF cols # expected_columns THEN DictSet(@, line_num, cols) ELSE @]

\* sorted(keys): the ascending sequence of a finite set of integers
RECURSIVE SortedSeq(_)
SortedSeq(S) ==
    IF S = {} THEN << >>
    ELSE LET m == CHOOSE x \in S : \A y \in S : x <= y
         IN <<m>> \o SortedSeq(S \ {m})

(***************************************************************************)
(* correct_csv: the header adjustment and the repair loop                  *)
(* (read_and_correct).                                                     *)
(***************************************************************************)
\* header_parts[:-1]
DropLast(parts) == SubSeq(parts, 1, Len(parts) - 1)

adjust_header(header_line, first_data_line, delimiter, expected_cols) ==
    LET raised == \/ CsvFails(RStripNL(header_line), delimiter)
                  \/ CsvFails(RStripNL(first_data_line), delimiter)
        header_parts == IF raised THEN Split(RStripNL(header_line), delimiter)
                        ELSE CsvRow(RStripNL(header_line), delimiter)
        data_parts == IF raised THEN Split(RStripNL(first_data_line), delimiter)
                      ELSE CsvRow(RStripNL(first_data_line), delimiter)
        header_cols == Len(header_parts)
        data_cols == Len(data_parts)
    IN IF header_cols = data_cols + 1
       THEN Join(DropLast(header_parts), delimiter) \o <<LF>>
       ELSE header_line

\* the locals as read_and_correct sets them on entry
repair_init ==
    [lines_written |-> 0, lines_corrected |-> 0, current_buffer |-> << >>,
     original_line_count |-> 0, is_first_line |-> TRUE,
     header_line |-> NoneStr, first_data_line |-> NoneStr]

read_and_correct_entry(st) == repair_init

\* the first data line after a held header: the iteration writes the header
is_first_data(st, line, delimiter) ==
    /\ ~(st.is_first_line /\ IsHeader(RStripNL(line), delimiter))
    /\ st.header_line # NoneStr
    /\ st.first_data_line = NoneStr
    /\ ~IsBlank(RStripNL(line))

\* mutant: a buffer of exactly the expected width is merged further
buffer_check_mut_le(col_count, expected_columns) ==
    IF col_count > expected_columns THEN "flush_overwide" ELSE "merge"

\* mutant: a buffer below the expected width is flushed as it is
buffer_check_mut_flush_short(col_count, expected_columns) ==
    IF col_count > expected_columns THEN "flush_overwide" ELSE "flush_complete"

\* what the loop does with a non-empty buffer of col_count fields
buffer_check(col_count, expected_columns) ==
    IF col_count = expected_columns THEN "flush_complete"
    ELSE IF col_count > expected_columns THEN "flush_overwide"
    ELSE "merge"

\* mutant: a blank line ends the merge, the buffer is flushed as it is
repair_branch_mut_blank_flushes(st, line, delimiter, expected_columns) ==
    LET stripped_buffer == RStripNL(st.current_buffer)
        col_count == count_columns_in_line_fast(stripped_buffer, delimiter)
    IN
    IF st.is_first_line /\ IsHeader(RStripNL(line), delimiter) THEN "hold_header"
    ELSE IF IsBlank(RStripNL(line))
         THEN IF st.current_buffer # << >> /\ ~IsBlank(stripped_buffer)
              THEN "flush_complete" ELSE "skip_blank"
    ELSE IF st.current_buffer # << >> /\ ~IsBlank(stripped_buffer)
         THEN buffer_check(col_count, expected_columns)
         ELSE "start"

\* the branch one iteration of the loop takes for the line
repair_branch(st, line, delimiter, expected_columns) ==
    LET stripped_buffer == RStripNL(st.current_buffer)
        col_count == count_columns_in_line_fast(stripped_buffer, delimiter)
    IN
    IF st.is_first_line /\ IsHeader(RStripNL(line), delimiter) THEN "hold_header"
    ELSE IF IsBlank(RStripNL(line)) THEN "skip_blank"
    ELSE IF st.current_buffer # << >> /\ ~IsBlank(stripped_buffer)
         THEN buffer_check(col_count, expected_columns)
         ELSE "start"

\* mutant: the header is written when the first data line arrives, as held
\* and again as adjusted
repair_writes_mut_header_twice(st, line, delimiter, expected_columns) ==
    (IF is_first_data(st, line, delimiter)
     THEN <<st.header_line,
            adjust_header(st.header_line, line, delimiter, expected_columns)>>
     ELSE << >>)
    \o
    (IF repair_branch(st, line, delimiter, expected_columns)
            \in {"flush_complete", "flush_overwide"}
     THEN <<st.current_buffer>>
     ELSE << >>)

\* what one iteration writes to outfile, in order
repair_writes(st, line, delimiter, expected_columns) ==
    (IF is_first_data(st, line, delimiter)
     THEN <<adjust_header(st.header_line, line, delimiter, expected_columns)>>
     ELSE << >>)
    \o
    (IF repair_branch(st, line, delimiter, expected_columns)
            \in {"flush_complete", "flush_overwide"}
     THEN <<st.current_buffer>>
     ELSE << >>)

\* mutant: the merge forgets what the buffer held
merge_buffer_mut_forget(current_buffer, line) == line

\* mutant: the merge joins without the space
merge_buffer_mut_nospace(current_buffer, line) == RStripNL(current_buffer) \o line

\* the buffer after the line is merged into it
merge_buffer(current_buffer, line) == RStripNL(current_buffer) \o <<" ">> \o line

\* the locals after one iteration
repair_line(st, line, delimiter, expected_columns) ==
    LET br == repair_branch(st, line, delimiter, expected_columns)
        s1 == IF is_first_data(st, line, delimiter)
              THEN [st EXCEPT !.is_first_line = FALSE,
                              !.first_data_line = line,
                              !.lines_written = @ + 1]
              ELSE [st EXCEPT !.is_first_line = FALSE]
    IN
    CASE br = "hold_header" -> [st EXCEPT !.header_line = line, !.is_first_line = FALSE]
      [] br = "skip_blank" -> s1
      [] br \in {"flush_complete", "flush_overwide"} ->
            [s1 EXCEPT !.lines_written = @ + 1,
                       !.lines_corrected =
                           IF s1.original_line_count > 1 THEN @ + 1 ELSE @,
                       !.current_buffer = line,
                       !.original_line_count = 1]
      [] br = "merge" ->
            [s1 EXCEPT !.current_buffer = merge_buffer(@, line),
                       !.original_line_count = @ + 1]
      [] br = "start" ->
            [s1 EXCEPT !.current_buffer = line, !.original_line_count = 1]

\* after the loop: the remaining buffer is written
repair_eof_writes(st) ==
    IF ~IsBlank(st.current_buffer) THEN <<st.current_buffer>> ELSE << >>

repair_eof(st) ==
    IF ~IsBlank(st.current_buffer)
    THEN [st EXCEPT !.lines_written = @ + 1,
                    !.lines_corrected = IF st.original_line_count > 1 THEN @ + 1 ELSE @]
    ELSE st

\* outfile.write(text) for each text of a sequence; the file is a byte sequence
RECURSIVE WriteAll(_, _, _)
WriteAll(content, texts, enc) ==
    IF Len(texts) = 0 THEN content
    ELSE WriteAll(content \o Encode(Head(texts), enc), Tail(texts), enc)

\* mutant: the width is the most frequent one alone
correct_expected_mut_freq(expected_cols_freq, column_counter) == expected_cols_freq

\* expected_columns of correct_csv
correct_expected(expected_cols_freq, column_counter) ==
    LET expected_cols_max == MaxKey(column_counter)
    IN IF expected_cols_freq >= expected_cols_max THEN expected_cols_freq
       ELSE expected_cols_max

(***************************************************************************)
(* The rejection recorder: collect_rejected_lines of main and              *)
(* save_rejected_lines_to_csv.  A list of (line_num, line) tuples is a     *)
(* sequence of <<line_num, line>>.                                         *)
(***************************************************************************)
\* the locals as collect_rejected_lines sets them on entry
collect_init == [all_lines |-> << >>, rejected_lines |-> << >>]

collect_rejected_lines_entry(st) == collect_init

\* all_lines.append((line_num, line))
collect_read(st, line_num, line) ==
    [st EXCEPT !.all_lines = Append(@, <<line_num, line>>)]

\* mutant: a line already added is added again
collect_current_mut_no_dedup(line_num, problematic_set, seen_line_nums) ==
    line_num \in problematic_set

\* the line of the iteration is added: it is problematic and not added yet
collect_current(line_num, problematic_set, seen_line_nums) ==
    line_num \in problematic_set /\ line_num \notin seen_line_nums

\* mutant: the following line is added whether it is problematic or not
collect_next_mut_always(next_line_num, problematic_set, seen_line_nums) ==
    next_line_num \notin seen_line_nums

\* the following line is added: it is problematic too and not added yet
collect_next(next_line_num, problematic_set, seen_line_nums) ==
    next_line_num \in problematic_set /\ next_line_num \notin seen_line_nums

scan_init == [rejected_lines |-> << >>, seen_line_nums |-> {}]

\* one iteration of the loop over range(len(all_lines)), idx counted from 1
collect_scan_line(sc, all_lines, idx, problematic_set) ==
    LET line_num == all_lines[idx][1]
        s1 == IF collect_current(line_num, problematic_set, sc.seen_line_nums)
              THEN [rejected_lines |-> Append(sc.rejected_lines, all_lines[idx]),
                    seen_line_nums |-> sc.seen_line_nums \cup {line_num}]
              ELSE sc
    IN IF /\ line_num \in problematic_set
          /\ idx + 1 <= Len(all_lines)
          /\ collect_next(all_lines[idx + 1][1], problematic_set, s1.seen_line_nums)
       THEN [rejected_lines |-> Append(s1.rejected_lines, all_lines[idx + 1]),
             seen_line_nums |-> s1.seen_line_nums \cup {all_lines[idx + 1][1]}]
       ELSE s1

\* the loop over range(len(all_lines))
RECURSIVE collect_scan(_, _, _, _)
collect_scan(sc, all_lines, idx, problematic_set) ==
    IF idx > Len(all_lines) THEN sc
    ELSE collect_scan(collect_scan_line(sc, all_lines, idx, problematic_set),
                      all_lines, idx + 1, problematic_set)

\* set(problematic)
SeqToSet(seq) == {seq[i] : i \in 1..Len(seq)}

\* a file that does not exist
NoFile == [exists |-> FALSE, content |-> << >>]

\* header of save_rejected_lines_to_csv from the first line read
read_header(first_line) ==
    IF ~IsBlank(first_line) THEN RStripNL(first_line) ELSE NoneStr

\* mutant: the first rejected line is taken for the header and not written
rejected_writes_mut_skip_first(header, rejected_lines) ==
    LET rest == Tail(rejected_lines) IN
    (IF header # NoneStr THEN <<header \o <<LF>>>> ELSE << >>)
    \o [i \in 1..Len(rest) |-> RStripNL(rest[i][2]) \o <<LF>>]

\* the writes of save_rejected_lines_to_csv, in order
RECURSIVE rejected_lines_writes(_)
rejected_lines_writes(rejected_lines) ==
    IF Len(rejected_lines) = 0 THEN << >>
    ELSE LET cleaned_line == RStripNL(Head(rejected_lines)[2])
         IN (IF ~IsBlank(cleaned_line) THEN <<cleaned_line \o <<LF>>>> ELSE << >>)
            \o rejected_lines_writes(Tail(rejected_lines))

rejected_writes(header, rejected_lines) ==
    (IF header # NoneStr THEN <<header \o <<LF>>>> ELSE << >>)
    \o rejected_lines_writes(rejected_lines)

\* the file at output_path after save_rejected_lines_to_csv, old before it
save_rejected_lines_to_csv(first_line, rejected_lines, old) ==
    IF rejected_lines = << >> THEN old
    ELSE [exists |-> TRUE,
          content |-> WriteAll(<< >>, rejected_writes(read_header(first_line),
                                                      rejected_lines), "utf-8")]

(***************************************************************************)
(* correct_csv: what it does to the file system and the line counts of its *)
(* final summary.  fs is [dir, exists]: output_path.parent exists,         *)
(* output_path exists.                                                     *)
(***************************************************************************)
DecodeAll(f, e) == [i \in 1..Len(f) |-> Decode(f[i], e)]

(***************************************************************************)
(* Reading a file back: the physical lines of a text, split as line        *)
(* iteration with newline="" splits them (after "\n", after "\r\n", after  *)
(* a lone "\r"), terminators kept.                                         *)
(***************************************************************************)
\* where the physical line that holds position i of a text ends
RECURSIVE LineEnd(_, _)
LineEnd(t, i) ==
    IF i >= Len(t) THEN Len(t)
    ELSE IF t[i] = LF THEN i
    ELSE IF t[i] = CR THEN (IF t[i + 1] = LF THEN i + 1 ELSE i)
    ELSE LineEnd(t, i + 1)

\* the length of the first physical line of a non-empty text
FirstLineLen(t) == LineEnd(t, 1)

RECURSIVE SplitLines(_)
SplitLines(t) ==
    IF Len(t) = 0 THEN << >>
    ELSE LET n == FirstLineLen(t)
         IN <<SubSeq(t, 1, n)>> \o SplitLines(SubSeq(t, n + 1, Len(t)))

\* the number of lines with line.strip() non-empty
CountNonBlank(lines) == Cardinality({i \in 1..Len(lines) : ~IsBlank(lines[i])})

\* mutant: the output directory is created on entry, before the analysis
correct_csv_fs_mut_mkdir_first(fs, at) ==
    IF at = "repair" THEN [dir |-> TRUE, exists |-> TRUE] ELSE [fs EXCEPT !.dir = TRUE]

\* the file system when correct_csv has come to `at`: mkdir(parents=True,
\* exist_ok=True) and open(output_path, "w") are reached after the analysis
\* and the count of the original lines only
correct_csv_fs(fs, at) ==
    IF at = "repair" THEN [dir |-> TRUE, exists |-> TRUE] ELSE fs

\* the numbers of lines a read under e may have yielded when it raises its
\* decode error (the text layer decodes by chunks); {0} when it raises none
count_stops(lines, e) ==
    IF FirstBad(lines, e) = 0 THEN {0} ELSE 0..(FirstBad(lines, e) - 1)

\* the counter of non-blank lines after try: count under e / except
\* UnicodeDecodeError: count under latin-1 (the counter is not reset)
count_lines(lines, e, stop) ==
    IF FirstBad(lines, e) = 0
    THEN CountNonBlank(DecodeAll(lines, e))
    ELSE CountNonBlank(DecodeAll(SubSeq(lines, 1, stop), e))
         + CountNonBlank(DecodeAll(lines, FALLBACK))

no_summary == [original_lines_count |-> 0, total_lines_corrected |-> 0]

(***************************************************************************)
(* Which input lines each write to outfile carries (line-by-line           *)
(* provenance of the repair): buf for current_buffer, hdr for the held     *)
(* header, out with one entry per write.                                   *)
(***************************************************************************)
src_init == [buf |-> << >>, hdr |-> 0, out |-> << >>]

src_line(sr, st, line_num, line, delimiter, expected_columns) ==
    LET br == repair_branch(st, line, delimiter, expected_columns)
        s1 == IF is_first_data(st, line, delimiter)
              THEN [sr EXCEPT !.out = Append(@, <<sr.hdr>>)]
              ELSE sr
    IN
    CASE br = "hold_header" -> [sr EXCEPT !.hdr = line_num]
      [] br = "skip_blank" -> s1
      [] br \in {"flush_complete", "flush_overwide"} ->
            [s1 EXCEPT !.out = Append(@, s1.buf), !.buf = <<line_num>>]
      [] br = "merge" -> [s1 EXCEPT !.buf = Append(@, line_num)]
      [] br = "start" -> [s1 EXCEPT !.buf = <<line_num>>]

src_eof(sr, st) ==
    IF ~IsBlank(st.current_buffer) THEN [sr EXCEPT !.out = Append(@, sr.buf)] ELSE sr

(***************************************************************************)
(* The repair loop of src/csv_validator.py (correct_csv.read_and_correct): *)
(* the header is written as it is when it is read; a line is put into the  *)
(* buffer first, and the buffer is written as soon as it has the width.    *)
(***************************************************************************)
legacy_init ==
    [lines_written |-> 0, lines_corrected |-> 0, current_buffer |-> << >>,
     original_line_count |-> 0, is_first_line |-> TRUE]

\* the first line looks like a header
legacy_is_header(st, line) ==
    /\ st.is_first_line
    /\ StartsWith(RStripNL(line), ";")
    /\ (Contains(Lower(RStripNL(line)), <<"m","a","t","r","i","c","u","l">>)
        \/ Contains(Lower(RStripNL(line)), <<"c","i","n">>))

\* the buffer with the line added to it
legacy_buffer(st, line) ==
    IF st.current_buffer # << >>
    THEN RStripNL(st.current_buffer) \o <<" ">> \o line
    ELSE line

\* mutant: a buffer above the expected width goes on accumulating
legacy_check_mut_keep_overwide(col_count, expected_columns) ==
    IF col_count = expected_columns THEN "flush_complete" ELSE "merge"

\* what the loop does with the buffer of col_count fields
legacy_check(col_count, expected_columns) ==
    IF col_count = expected_columns THEN "flush_complete"
    ELSE IF col_count < expected_columns THEN "merge"
    ELSE "flush_overwide"

\* the branch one iteration of the loop takes for the line
legacy_branch(st, line, delimiter, expected_columns) ==
    LET stripped == RStripNL(legacy_buffer(st, line))
    IN IF legacy_is_header(st, line) THEN "write_header"
       ELSE IF IsBlank(stripped) THEN "reset_blank"
       ELSE legacy_check(count_columns_in_line_fast(stripped, delimiter),
                         expected_columns)

\* what one iteration writes to outfile
legacy_writes(st, line, delimiter, expected_columns) ==
    LET br == legacy_branch(st, line, delimiter, expected_columns)
    IN IF br = "write_header" THEN <<line>>
       ELSE IF br \in {"flush_complete", "flush_overwide"}
            THEN <<legacy_buffer(st, line)>>
            ELSE << >>

\* the locals after one iteration
legacy_line(st, line, delimiter, expected_columns) ==
    LET br == legacy_branch(st, line, delimiter, expected_columns)
        s1 == [st EXCEPT !.is_first_line = FALSE]
        count == IF st.current_buffer # << >> THEN st.original_line_count + 1 ELSE 1
    IN
    CASE br = "write_header" -> [s1 EXCEPT !.lines_written = @ + 1]
      [] br = "reset_blank" ->
            [s1 EXCEPT !.current_buffer = << >>, !.original_line_count = 0]
      [] br \in {"flush_complete", "flush_overwide"} ->
            [s1 EXCEPT !.lines_written = @ + 1,
                       !.lines_corrected = IF count > 1 THEN @ + 1 ELSE @,
                       !.current_buffer = << >>,
                       !.original_line_count = 0]
      [] br = "merge" ->
            [s1 EXCEPT !.current_buffer = legacy_buffer(st, line),
                       !.original_line_count = count]

\* after the loop: the remaining buffer is written
legacy_eof_writes(st) ==
    IF ~IsBlank(st.current_buffer) THEN <<st.current_buffer>> ELSE << >>

legacy_eof(st) ==
    IF ~IsBlank(st.current_buffer)
    THEN [st EXCEPT !.lines_written = @ + 1,
                    !.lines_corrected = IF st.original_line_count > 1 THEN @ + 1 ELSE @]
    ELSE st

\* the loop before it is called
legacy_idle ==
    [pc |-> "idle", enc |-> "none", pos |-> 0, st |-> legacy_init,
     outfile |-> << >>, result |-> << >>]

(***************************************************************************)
(* The inputs: files of at most MaxLines physical lines drawn from Pool.   *)
(***************************************************************************)
BlankLine == <<" ", LF>>
HeaderLine == <<";", "C", "I", "N", ";", "x", ";", "y", LF>>
ShortHeader == <<";", "c", "i", "n", LF>>
Line3 == <<"a", ";", "b", ";", "c", LF>>
Line2 == <<"d", ";", "e", CR, LF>>
Line1 == <<"f", LF>>
QuotedLine == <<";", QUOTE, "c", "i", "n", ";", "h", QUOTE, ";", "y", LF>>
Latin1Line == <<"xE9", ";", "k", LF>>

Pool == {BlankLine, HeaderLine, ShortHeader, Line3, Line2, Line1, QuotedLine, Latin1Line}

\* the file with the terminator of its last line removed
NoFinalEol(f) ==
    IF Len(f) = 0 THEN f ELSE [f EXCEPT ![Len(f)] = RStripNL(@)]

Files ==
    LET terminated == UNION {[1..n -> Pool] : n \in 0..MaxLines}
    IN terminated \cup {NoFinalEol(f) : f \in terminated}

Delimiters == {";"}
Encodings == {"utf-8"}

\* what output_path holds before correct_csv runs
OldContent == <<"o", "l", "d", LF>>

\* output_path holds a file before the call
OldFile == [dir |-> TRUE, exists |-> TRUE, content |-> OldContent]

NoReturn == [expected_columns |-> NoneInt, problematic_lines_list |-> << >>,
             column_counter |-> << >>, problematic_lines |-> << >>]

VARIABLES
    file,               \* csv_path: the physical lines, as bytes
    delimiter,          \* delimiter
    encoding,           \* encoding (the requested one)
    use_most_frequent,  \* use_most_frequent of analyze_csv_columns
    entry,              \* the function called: analyze_csv_columns or correct_csv
    caller,             \* who calls it: "main" (the body of main's loop over
                        \* the files, correction mode) or "none"
    pc,                 \* where the call is
    enc,                \* enc of the running pass
    pos,                \* number of lines the running pass has read
    p1,                 \* locals of pass 1 (read_file_with_encoding)
    expected_columns,   \* expected_columns of analyze_csv_columns
    p2,                 \* locals of pass 2 (find_problematic_lines)
    ret,                \* what analyze_csv_columns returned
    rc_expected,        \* expected_columns of correct_csv
    rc,                 \* locals of read_and_correct
    outfile,            \* output_path: the bytes of the file
    src,                \* provenance of the writes
    result,             \* <<lines_written, lines_corrected>> as returned
    col,                \* locals of collect_rejected_lines
    rejected_file,      \* rejected_output_path: the file
    failed_at,          \* lines the running pass had read when its decode error
                        \* was raised, -1 while it has raised none
    readable,           \* csv_path can be opened for reading
    fs_before,          \* [dir, exists, content] of output_path before the call
    fs,                 \* [dir, exists] of output_path
    summary,            \* original_lines_count and total_lines_corrected of
                        \* correct_csv
    fc_line,            \* line of a call of count_columns_in_line_fast
    fc_ret,             \* what the call returned, NoneInt before it returns
    args_correct,       \* args.correct of main: correction mode (--correct) or
                        \* validation mode
    converted_files,    \* converted_files of main: [name, content, readable] each
    processed,          \* the files the loop of main has gone through, in order,
                        \* each with the call that raised and what the validation did
    files_ok,           \* files_ok of main
    files_with_corrections,
    files_with_warnings,
    files_with_errors,
    lg                  \* the repair loop of src/csv_validator.py on the same file:
                        \* [pc, enc, pos, st (its locals), outfile, result]

callVars == <<file, delimiter, encoding, use_most_frequent, caller, readable, fs_before>>
inputVars == <<callVars, entry>>
analyzeVars == <<p1, expected_columns, p2, ret>>
repairVars == <<rc_expected, rc, outfile, src, result>>
summaryVars == <<fs, summary>>
unitVars == <<fc_line, fc_ret>>
summaryLists == <<files_ok, files_with_corrections, files_with_warnings, files_with_errors>>
batchVars == <<args_correct, converted_files, processed, summaryLists>>
legacyVars == <<lg>>
otherVars == <<unitVars, batchVars, legacyVars>>
recorderVars == <<col, rejected_file>>
vars == <<inputVars, pc, enc, pos, failed_at, analyzeVars, repairVars, recorderVars,
          summaryVars, otherVars>>

\* no call of count_columns_in_line_fast on its own is running
IdleUnit ==
    /\ fc_line = << >>
    /\ fc_ret = NoneInt

\* the loop of main over the converted files is not running
IdleBatch ==
    /\ args_correct = TRUE
    /\ converted_files = << >>
    /\ processed = << >>
    /\ files_ok = << >>
    /\ files_with_corrections = << >>
    /\ files_with_warnings = << >>
    /\ files_with_errors = << >>

\* the repair loop of src/csv_validator.py is not running
IdleLegacy == lg = legacy_idle

IdleOther == IdleUnit /\ IdleBatch /\ IdleLegacy

\* the file system on entry of the call
EntryFs ==
    LET old == [dir |-> fs_before.dir, exists |-> fs_before.exists]
    IN IF entry = "correct_csv" THEN correct_csv_fs(old, pc) ELSE old

\* the state on entry of the call, common to the callers
InitCall ==
    /\ delimiter \in Delimiters
    /\ encoding \in Encodings
    /\ pc = "pass1"
    /\ enc = encoding
    /\ pos = 0
    /\ p1 = freq_init
    /\ expected_columns = NoneInt
    /\ p2 = locate_init
    /\ ret = NoReturn
    /\ rc_expected = NoneInt
    /\ rc = repair_init
    /\ outfile = fs_before.content
    /\ summary = no_summary
    /\ IdleOther
    /\ src = src_init
    /\ result = << >>
    /\ failed_at = -1
    /\ col = collect_init

\* a call of analyze_csv_columns or of correct_csv
Init ==
    /\ file \in Files
    /\ readable = TRUE
    /\ fs_before = OldFile
    /\ InitCall
    /\ caller = "none"
    /\ entry \in {"analyze_csv_columns", "correct_csv"}
    /\ use_most_frequent \in (IF entry = "correct_csv" THEN {TRUE} ELSE BOOLEAN)
    /\ rejected_file = NoFile
    /\ fs = EntryFs

\* main, correction mode, at its call of analyze_csv_columns for a file
InitMain ==
    /\ file \in Files
    /\ readable = TRUE
    /\ fs_before = OldFile
    /\ InitCall
    /\ caller = "main"
    /\ entry = "analyze_csv_columns"
    /\ use_most_frequent = TRUE
    /\ rejected_file \in {NoFile, [exists |-> TRUE, content |-> OldContent]}
    /\ fs = EntryFs

\* the text layer has decoded line i: no undecodable byte at or before it
CanRead(i) == FirstBad(file, enc) = 0 \/ i < FirstBad(file, enc)

\* the text layer decodes by chunks: the error of an undecodable byte is
\* raised at some read before the line that holds it is yielded
MayRaise == FirstBad(file, enc) # 0 /\ pos < FirstBad(file, enc)

AtEof == pos = Len(file)

(***************************************************************************)
(* analyze_csv_columns                                                     *)
(***************************************************************************)
FreqStep ==
    /\ pc = "pass1"
    /\ readable
    /\ ~AtEof
    /\ CanRead(pos + 1)
    /\ p1' = freq_line(p1, Decode(file[pos + 1], enc), delimiter)
    /\ pos' = pos + 1
    /\ UNCHANGED <<otherVars, summaryVars, inputVars, recorderVars, failed_at, pc, enc, expected_columns, p2, ret, repairVars>>

FreqDecodeError ==
    /\ pc = "pass1"
    /\ readable
    /\ MayRaise
    /\ p1' = read_file_with_encoding_entry(p1)
    /\ enc' = FALLBACK
    /\ pos' = 0
    /\ failed_at' = pos
    /\ UNCHANGED <<otherVars, summaryVars, inputVars, recorderVars, pc, expected_columns, p2, ret, repairVars>>

\* open(csv_path, ...) raises: the exception leaves analyze_csv_columns
FreqOpenError ==
    /\ pc = "pass1"
    /\ ~readable
    /\ pos = 0
    /\ p1' = read_file_with_encoding_entry(p1)
    /\ pc' = "raised"
    /\ UNCHANGED <<otherVars, summaryVars, inputVars, recorderVars, failed_at, enc, pos, expected_columns, p2, ret, repairVars>>

FreqEnd ==
    /\ pc = "pass1"
    /\ readable
    /\ AtEof
    /\ IF is_empty_input(p1.column_counter)
       THEN /\ pc' = "raised"
            /\ UNCHANGED <<enc, pos, failed_at, expected_columns, p2>>
       ELSE /\ expected_columns' = resolve_expected(p1.column_counter, use_most_frequent)
            /\ p2' = find_problematic_lines_entry(p2)
            /\ enc' = encoding
            /\ pos' = 0
            /\ failed_at' = -1
            /\ pc' = "pass2"
    /\ UNCHANGED <<otherVars, summaryVars, inputVars, recorderVars, p1, ret, repairVars>>

LocateStep ==
    /\ pc = "pass2"
    /\ ~AtEof
    /\ CanRead(pos + 1)
    /\ p2' = locate_line(p2, pos + 1, Decode(file[pos + 1], enc), delimiter,
                         expected_columns)
    /\ pos' = pos + 1
    /\ UNCHANGED <<otherVars, summaryVars, inputVars, recorderVars, failed_at, pc, enc, p1, expected_columns, ret, repairVars>>

LocateDecodeError ==
    /\ pc = "pass2"
    /\ MayRaise
    /\ p2' = find_problematic_lines_entry(p2)
    /\ enc' = FALLBACK
    /\ pos' = 0
    /\ failed_at' = pos
    /\ UNCHANGED <<otherVars, summaryVars, inputVars, recorderVars, pc, p1, expected_columns, ret, repairVars>>

analyze_return(cols, st1, st2) ==
    [expected_columns |-> cols,
     problematic_lines_list |-> SortedSeq(DictKeys(st2.problematic_lines)),
     column_counter |-> st1.column_counter,
     problematic_lines |-> st2.problematic_lines]

\* main goes on with the recorder when the list is not empty
after_analysis(problematic_lines_list) ==
    IF problematic_lines_list # << >> THEN "collect" ELSE "call_correct"

LocateEnd ==
    /\ pc = "pass2"
    /\ AtEof
    /\ ret' = analyze_return(expected_columns, p1, p2)
    /\ IF entry = "analyze_csv_columns" /\ caller = "main"
       THEN /\ pc' = after_analysis(ret'.problematic_lines_list)
            /\ col' = collect_rejected_lines_entry(col)
            /\ enc' = "utf-8"
            /\ pos' = 0
            /\ failed_at' = -1
       ELSE /\ pc' = IF entry = "correct_csv" THEN "correct" ELSE "done"
            /\ UNCHANGED <<failed_at, enc, pos, col>>
    /\ UNCHANGED <<otherVars, summaryVars, inputVars, rejected_file, p1, expected_columns, p2, repairVars>>

(***************************************************************************)
(* main: the recorder, then correct_csv.                                   *)
(***************************************************************************)
CollectStep ==
    /\ pc = "collect"
    /\ ~AtEof
    /\ CanRead(pos + 1)
    /\ col' = collect_read(col, pos + 1, Decode(file[pos + 1], enc))
    /\ pos' = pos + 1
    /\ UNCHANGED <<otherVars, summaryVars, inputVars, rejected_file, failed_at, pc, enc, analyzeVars, repairVars>>

CollectDecodeError ==
    /\ pc = "collect"
    /\ MayRaise
    /\ col' = collect_rejected_lines_entry(col)
    /\ enc' = FALLBACK
    /\ pos' = 0
    /\ failed_at' = pos
    /\ UNCHANGED <<otherVars, summaryVars, inputVars, rejected_file, pc, analyzeVars, repairVars>>

CollectEnd ==
    /\ pc = "collect"
    /\ AtEof
    /\ col' = [col EXCEPT !.rejected_lines =
                   collect_scan(scan_init, col.all_lines, 1,
                                SeqToSet(ret.problematic_lines_list)).rejected_lines]
    /\ pc' = "save"
    /\ UNCHANGED <<otherVars, summaryVars, inputVars, rejected_file, failed_at, enc, pos, analyzeVars, repairVars>>

\* if rejected_lines: save_rejected_lines_to_csv(...); raised tells whether
\* its readline under utf-8 raised and the first line was read under latin-1
SaveRejected ==
    /\ pc = "save"
    /\ \E raised \in BOOLEAN :
           /\ raised => FirstBad(file, "utf-8") # 0
           /\ ~raised => (Len(file) = 0 \/ Decodable(file[1], "utf-8"))
           /\ LET first_line == IF Len(file) = 0 THEN << >>
                                ELSE Decode(file[1], IF raised THEN FALLBACK ELSE "utf-8")
              IN rejected_file' =
                     save_rejected_lines_to_csv(first_line, col.rejected_lines, rejected_file)
    /\ pc' = "call_correct"
    /\ UNCHANGED <<otherVars, summaryVars, inputVars, col, failed_at, enc, pos, analyzeVars, repairVars>>

\* main calls correct_csv(csv_file, csv_output_file, delimiter=delimiter)
MainCorrect ==
    /\ pc = "call_correct"
    /\ entry' = "correct_csv"
    /\ p1' = read_file_with_encoding_entry(p1)
    /\ enc' = encoding
    /\ pos' = 0
    /\ failed_at' = -1
    /\ pc' = "pass1"
    /\ fs' = correct_csv_fs(fs, pc')
    /\ UNCHANGED <<otherVars, summary, callVars, recorderVars, expected_columns, p2, ret, repairVars>>

(***************************************************************************)
(* correct_csv                                                             *)
(***************************************************************************)
CorrectOpen ==
    /\ pc = "correct"
    /\ rc_expected' = correct_expected(ret.expected_columns, ret.column_counter)
    /\ rc' = read_and_correct_entry(rc)
    /\ outfile' = << >>
    /\ src' = src_init
    /\ enc' = encoding
    /\ pos' = 0
    /\ failed_at' = -1
    /\ pc' = "repair"
    /\ fs' = correct_csv_fs(fs, pc')
    /\ UNCHANGED <<otherVars, summary, inputVars, recorderVars, analyzeVars, result>>

RepairStep ==
    /\ pc = "repair"
    /\ ~AtEof
    /\ CanRead(pos + 1)
    /\ LET line == Decode(file[pos + 1], enc) IN
        /\ rc' = repair_line(rc, line, delimiter, rc_expected)
        /\ outfile' = WriteAll(outfile, repair_writes(rc, line, delimiter, rc_expected), enc)
        /\ src' = src_line(src, rc, pos + 1, line, delimiter, rc_expected)
    /\ pos' = pos + 1
    /\ UNCHANGED <<otherVars, summaryVars, inputVars, recorderVars, failed_at, pc, enc, analyzeVars, rc_expected, result>>

RepairDecodeError ==
    /\ pc = "repair"
    /\ MayRaise
    /\ rc' = read_and_correct_entry(rc)
    /\ outfile' = << >>
    /\ src' = src_init
    /\ enc' = FALLBACK
    /\ pos' = 0
    /\ failed_at' = pos
    /\ UNCHANGED <<otherVars, summaryVars, inputVars, recorderVars, pc, analyzeVars, rc_expected, result>>

RepairEnd ==
    /\ pc = "repair"
    /\ AtEof
    /\ rc' = repair_eof(rc)
    /\ outfile' = WriteAll(outfile, repair_eof_writes(rc), enc)
    /\ src' = src_eof(src, rc)
    /\ result' = <<rc'.lines_written, rc'.lines_corrected>>
    /\ pc' = "done"
    /\ UNCHANGED <<otherVars, summaryVars, inputVars, recorderVars, failed_at, enc, pos, analyzeVars, rc_expected>>

\* after read_and_correct has returned: correct_csv counts the lines of the
\* file it wrote, logs its summary and returns. original_lines_count is
\* counted before the repair, from the input file, and is read by the summary
\* only: the model takes it where the summary reads it.
CorrectSummary ==
    /\ entry = "correct_csv"
    /\ pc = "done"
    /\ LET written == SplitLines(outfile)
       IN \E stop_original \in count_stops(file, encoding),
             stop_corrected \in count_stops(written, encoding) :
              summary' = [original_lines_count |->
                              count_lines(file, encoding, stop_original),
                          total_lines_corrected |->
                              count_lines(written, encoding, stop_corrected)]
    /\ pc' = "returned"
    /\ UNCHANGED <<otherVars, inputVars, recorderVars, failed_at, enc, pos, analyzeVars, repairVars, fs>>

Next ==
    \/ FreqStep
    \/ FreqDecodeError
    \/ FreqEnd
    \/ LocateStep
    \/ LocateDecodeError
    \/ LocateEnd
    \/ CorrectOpen
    \/ RepairStep
    \/ RepairDecodeError
    \/ RepairEnd
    \/ CorrectSummary

Spec == Init /\ [][Next]_vars

\* analyze_csv_columns called on its own, under either policy
InitAnalyze ==
    /\ Init
    /\ entry = "analyze_csv_columns"

NextAnalyze ==
    \/ FreqStep
    \/ FreqDecodeError
    \/ FreqEnd
    \/ LocateStep
    \/ LocateDecodeError
    \/ LocateEnd

SpecAnalyze == InitAnalyze /\ [][NextAnalyze]_vars

\* correct_csv, from its entry to its summary
InitCorrect ==
    /\ Init
    /\ entry = "correct_csv"

SpecCorrect == InitCorrect /\ [][Next]_vars

NextMain ==
    \/ FreqStep
    \/ FreqDecodeError
    \/ FreqEnd
    \/ LocateStep
    \/ LocateDecodeError
    \/ LocateEnd
    \/ CollectStep
    \/ CollectDecodeError
    \/ CollectEnd
    \/ SaveRejected
    \/ MainCorrect
    \/ CorrectOpen
    \/ RepairStep
    \/ RepairDecodeError
    \/ RepairEnd
    \/ CorrectSummary

SpecMain == InitMain /\ [][NextMain]_vars

\* main, correction mode, from its call of analyze_csv_columns to the end of
\* the rejection recorder
NextRecorder ==
    \/ FreqStep
    \/ FreqDecodeError
    \/ FreqEnd
    \/ LocateStep
    \/ LocateDecodeError
    \/ LocateEnd
    \/ CollectStep
    \/ CollectDecodeError
    \/ CollectEnd
    \/ SaveRejected

SpecRecorder == InitMain /\ [][NextRecorder]_vars

(***************************************************************************)
(* Scenario A: the lines a;b;c, d;e and f;g;h, each ended by "\n" or        *)
(* "\r\n", the last one possibly by nothing; utf-8 decodes every byte, so   *)
(* no pass raises.                                                         *)
(***************************************************************************)
ScenarioALines == << <<"a", ";", "b", ";", "c">>, <<"d", ";", "e">>, <<"f", ";", "g", ";", "h">> >>

ScenarioAFiles ==
    {[i \in 1..3 |-> ScenarioALines[i] \o t[i]] :
        t \in {u \in [1..3 -> {<<LF>>, <<CR, LF>>, << >>}] : u[1] # << >> /\ u[2] # << >>}}

InitScenarioA ==
    /\ file \in ScenarioAFiles
    /\ readable = TRUE
    /\ fs_before = OldFile
    /\ InitCall
    /\ caller = "none"
    /\ entry \in {"analyze_csv_columns", "correct_csv"}
    /\ use_most_frequent \in (IF entry = "correct_csv" THEN {TRUE} ELSE BOOLEAN)
    /\ rejected_file = NoFile
    /\ fs = EntryFs

NextScenarioA ==
    \/ FreqStep
    \/ FreqEnd
    \/ LocateStep
    \/ LocateEnd
    \/ CorrectOpen
    \/ RepairStep
    \/ RepairEnd
    \/ CorrectSummary

SpecScenarioA == InitScenarioA /\ [][NextScenarioA]_vars

(***************************************************************************)
(* correct_csv on a file that can or cannot be opened, with an output path  *)
(* whose directory and file exist or not.                                  *)
(***************************************************************************)
FsFiles == {f \in Files : Len(f) <= MaxFsLines}

\* output_path before the call: no directory, a directory without the file,
\* the file
FsBefores ==
    {[dir |-> FALSE, exists |-> FALSE, content |-> << >>],
     [dir |-> TRUE, exists |-> FALSE, content |-> << >>],
     OldFile}

InitFs ==
    /\ readable \in BOOLEAN
    /\ file \in (IF readable THEN FsFiles ELSE {<< >>})
    /\ fs_before \in FsBefores
    /\ InitCall
    /\ caller = "none"
    /\ entry = "correct_csv"
    /\ use_most_frequent = TRUE
    /\ rejected_file = NoFile
    /\ fs = EntryFs

NextFs ==
    \/ FreqOpenError
    \/ FreqStep
    \/ FreqDecodeError
    \/ FreqEnd
    \/ LocateStep
    \/ LocateDecodeError
    \/ LocateEnd
    \/ CorrectOpen
    \/ RepairStep
    \/ RepairDecodeError
    \/ RepairEnd
    \/ CorrectSummary

SpecFs == InitFs /\ [][NextFs]_vars

(***************************************************************************)
(* The two repair loops on the same file under the same expected width:    *)
(* read_and_correct of columns_number_validator.py, then read_and_correct  *)
(* of src/csv_validator.py. The files have no header and no blank line.    *)
(***************************************************************************)
HeaderLess(f, d) ==
    Len(f) > 0 => ~IsHeader(RStripNL(Decode(f[1], FALLBACK)), d)

BlankFree(f) == \A i \in 1..Len(f) : ~IsBlank(Decode(f[i], FALLBACK))

InitLegacy ==
    /\ delimiter \in Delimiters
    /\ encoding \in Encodings
    /\ file \in {f \in Files : HeaderLess(f, delimiter) /\ BlankFree(f)}
    /\ readable = TRUE
    /\ fs_before = OldFile
    /\ use_most_frequent = TRUE
    /\ caller = "none"
    /\ entry = "read_and_correct"
    /\ pc = "repair"
    /\ enc = encoding
    /\ pos = 0
    /\ failed_at = -1
    /\ p1 = freq_init
    /\ expected_columns = NoneInt
    /\ p2 = locate_init
    /\ ret = NoReturn
    /\ rc_expected \in 1..MaxWidth
    /\ rc = repair_init
    /\ outfile = << >>
    /\ src = src_init
    /\ result = << >>
    /\ col = collect_init
    /\ rejected_file = NoFile
    /\ summary = no_summary
    /\ fs = [dir |-> TRUE, exists |-> TRUE]
    /\ IdleUnit
    /\ IdleBatch
    /\ lg = [legacy_idle EXCEPT !.pc = "repair", !.enc = encoding]

\* the loop of src/csv_validator.py runs once the other has returned
LegacyRunning == entry = "read_and_correct" /\ pc = "done" /\ lg.pc = "repair"

LegacyStep ==
    /\ LegacyRunning
    /\ lg.pos < Len(file)
    /\ FirstBad(file, lg.enc) = 0 \/ lg.pos + 1 < FirstBad(file, lg.enc)
    /\ LET line == Decode(file[lg.pos + 1], lg.enc) IN
        lg' = [lg EXCEPT
                 !.st = legacy_line(lg.st, line, delimiter, rc_expected),
                 !.outfile = WriteAll(@, legacy_writes(lg.st, line, delimiter, rc_expected),
                                      lg.enc),
                 !.pos = @ + 1]
    /\ UNCHANGED <<unitVars, batchVars, inputVars, pc, enc, pos, failed_at, analyzeVars,
                   repairVars, recorderVars, summaryVars>>

LegacyDecodeError ==
    /\ LegacyRunning
    /\ FirstBad(file, lg.enc) # 0
    /\ lg.pos < FirstBad(file, lg.enc)
    /\ lg' = [lg EXCEPT !.st = legacy_init, !.outfile = << >>, !.enc = FALLBACK,
                        !.pos = 0]
    /\ UNCHANGED <<unitVars, batchVars, inputVars, pc, enc, pos, failed_at, analyzeVars,
                   repairVars, recorderVars, summaryVars>>

LegacyEnd ==
    /\ LegacyRunning
    /\ lg.pos = Len(file)
    /\ lg' = [lg EXCEPT
                 !.st = legacy_eof(lg.st),
                 !.outfile = WriteAll(@, legacy_eof_writes(lg.st), lg.enc),
                 !.result = <<legacy_eof(lg.st).lines_written,
                              legacy_eof(lg.st).lines_corrected>>,
                 !.pc = "done"]
    /\ UNCHANGED <<unitVars, batchVars, inputVars, pc, enc, pos, failed_at, analyzeVars,
                   repairVars, recorderVars, summaryVars>>

NextLegacy ==
    \/ RepairStep
    \/ RepairDecodeError
    \/ RepairEnd
    \/ LegacyStep
    \/ LegacyDecodeError
    \/ LegacyEnd

SpecLegacy == InitLegacy /\ [][NextLegacy]_vars

(***************************************************************************)
(* count_columns_in_line_fast on its own: one call on a line as the passes *)
(* hand it over.  Every caller reads its file with newline='' and passes   *)
(* line.rstrip('\n\r'), or the buffer of such lines joined by spaces, so   *)
(* the line holds no line break.  The lines are those of at most           *)
(* MaxLineLen characters, a few lines with a field about as long as the    *)
(* field limit of csv.reader, and the line a;"b;c";d of Scenario B.        *)
(***************************************************************************)
LineChars == {"a", ";", QUOTE, APOS, " "}

ScenarioBLine == <<"a", ";", QUOTE, "b", ";", "c", QUOTE, ";", "d">>

\* the lines a, 'a, "a", ";a", ";";a and a;";" with the letter drawn out to
\* a run of r letters, for the r one under the field limit, at it and one
\* over it
LongFieldLines ==
    LET RunLens == (field_size_limit - 1)..(field_size_limit + 1)
        Bases == {<<"a">>, <<APOS, "a">>, <<QUOTE, "a", QUOTE>>,
                  <<QUOTE, ";", "a", QUOTE>>, <<QUOTE, ";", QUOTE, ";", "a">>,
                  <<"a", ";", QUOTE, ";", QUOTE>>}
        Stretch(line, i, r) ==
            SubSeq(line, 1, i - 1) \o [k \in 1..r |-> line[i]]
                \o SubSeq(line, i + 1, Len(line))
    IN UNION {{Stretch(line, i, r) : i \in {k \in 1..Len(line) : line[k] = "a"},
                                      r \in RunLens} : line \in Bases}

\* the lines of at most n characters, the lines with a long field, the line
\* of Scenario B
CountedLines(n) ==
    UNION {[1..m -> LineChars] : m \in 0..n} \cup LongFieldLines \cup {ScenarioBLine}

\* the variables of a call of analyze_csv_columns or correct_csv while none runs
IdleCall ==
    /\ file = << >>
    /\ readable = TRUE
    /\ fs_before = OldFile
    /\ encoding \in Encodings
    /\ use_most_frequent = TRUE
    /\ caller = "none"
    /\ pc = "idle"
    /\ enc = encoding
    /\ pos = 0
    /\ p1 = freq_init
    /\ expected_columns = NoneInt
    /\ p2 = locate_init
    /\ ret = NoReturn
    /\ rc_expected = NoneInt
    /\ rc = repair_init
    /\ outfile = fs_before.content
    /\ src = src_init
    /\ result = << >>
    /\ failed_at = -1
    /\ col = collect_init
    /\ rejected_file = NoFile
    /\ summary = no_summary
    /\ fs = [dir |-> fs_before.dir, exists |-> fs_before.exists]

InitCount ==
    /\ IdleCall
    /\ IdleBatch
    /\ IdleLegacy
    /\ entry = "count_columns_in_line_fast"
    /\ delimiter \in Delimiters
    /\ fc_line \in CountedLines(MaxLineLen)
    /\ fc_ret = NoneInt

CountColumns ==
    /\ entry = "count_columns_in_line_fast"
    /\ fc_ret = NoneInt
    /\ fc_ret' = count_columns_in_line_fast(fc_line, delimiter)
    /\ UNCHANGED <<fc_line, batchVars, legacyVars, inputVars, pc, enc, pos, failed_at, analyzeVars, repairVars,
                   recorderVars, summaryVars>>

NextCount == CountColumns

SpecCount == InitCount /\ [][NextCount]_vars

(***************************************************************************)
(* The passes run over a whole file under one encoding from the first      *)
(* line: what a call returns when no decode error interrupts it.           *)
(***************************************************************************)
RECURSIVE FreqRun(_, _, _, _)
FreqRun(st, lines, i, d) ==
    IF i > Len(lines) THEN st
    ELSE FreqRun(freq_line(st, lines[i], d), lines, i + 1, d)

RECURSIVE LocateRun(_, _, _, _, _)
LocateRun(st, lines, i, d, cols) ==
    IF i > Len(lines) THEN st
    ELSE LocateRun(locate_line(st, i, lines[i], d, cols), lines, i + 1, d, cols)

\* the state is [st, out]: the locals and the bytes written
RECURSIVE RepairRun(_, _, _, _, _, _)
RepairRun(r, lines, i, d, cols, e) ==
    IF i > Len(lines)
    THEN [st |-> repair_eof(r.st), out |-> WriteAll(r.out, repair_eof_writes(r.st), e)]
    ELSE RepairRun([st |-> repair_line(r.st, lines[i], d, cols),
                    out |-> WriteAll(r.out, repair_writes(r.st, lines[i], d, cols), e)],
                   lines, i + 1, d, cols, e)

(***************************************************************************)
(* main: the loop over converted_files and the lists of the final summary, *)
(* in correction mode (--correct) and in validation mode.  What the calls  *)
(* of a file do that the lists depend on is env: in correction mode        *)
(* whether the saving of the rejected lines raises, whether correct_csv    *)
(* raises, what validate_csv_columns does, whether convert_csv_to_parquet  *)
(* raises; in validation mode whether csv_validate_columns_number raises   *)
(* (main imports it from columns_number_validator.py, which does not       *)
(* define it) and what validate_csv_columns does.                          *)
(***************************************************************************)
\* analyze_csv_columns(csv_file, delimiter, "utf-8", use_most_frequent=True)
\* as a whole: it raises on a file it cannot open and on an empty distribution
analyze_csv_columns(f, can_open, d) ==
    IF ~can_open THEN [raised |-> TRUE, ret |-> NoReturn]
    ELSE LET e1 == IF FirstBad(f, "utf-8") = 0 THEN "utf-8" ELSE FALLBACK
             st1 == FreqRun(freq_init, DecodeAll(f, e1), 1, d)
         IN IF is_empty_input(st1.column_counter)
            THEN [raised |-> TRUE, ret |-> NoReturn]
            ELSE LET cols == resolve_expected(st1.column_counter, TRUE)
                     st2 == LocateRun(locate_init, DecodeAll(f, e1), 1, d, cols)
                 IN [raised |-> FALSE, ret |-> analyze_return(cols, st1, st2)]

\* validate_csv_columns returns True without or with warnings logged,
\* returns False, or raises
ValidationOutcomes == {"valid", "valid_with_warnings", "invalid", "raises"}

Envs(correct) ==
    IF correct
    THEN [rejected_raises : BOOLEAN, repair_raises : BOOLEAN, columns_number_raises : {FALSE},
          validation : ValidationOutcomes, export_raises : BOOLEAN]
    ELSE [rejected_raises : {FALSE}, repair_raises : {FALSE}, columns_number_raises : BOOLEAN,
          validation : ValidationOutcomes, export_raises : {FALSE}]

\* if name not in list: list.append(name)
append_new(list, name) == IF name \in SeqToSet(list) THEN list ELSE Append(list, name)

\* mutant: the handler logs the error and records nothing
record_error_mut_drop(errors, name) == errors

\* except Exception: files_with_errors.append(source_file_name)
record_error(errors, name) == Append(errors, name)

\* "Enregistrer le statut du fichier": the three lists after the validation
record_status(ls, name, validation_error, has_pandera_warnings, corrections_needed) ==
    [ls EXCEPT
        !.files_with_warnings =
            IF validation_error \/ has_pandera_warnings THEN append_new(@, name) ELSE @,
        !.files_with_corrections =
            IF corrections_needed THEN append_new(@, name) ELSE @,
        !.files_ok =
            IF ~validation_error /\ ~has_pandera_warnings /\ ~corrections_needed
            THEN Append(@, name) ELSE @]

\* the call of the body that raises out of it, "none" if none does; an
\* exception of the saving of the rejected lines or of validate_csv_columns
\* is caught where it is raised
raised_at(item, d, env, correct) ==
    IF ~correct
    THEN IF env.columns_number_raises THEN "csv_validate_columns_number" ELSE "none"
    ELSE IF analyze_csv_columns(item.content, item.readable, d).raised
    THEN "analyze_csv_columns"
    ELSE IF env.repair_raises THEN "correct_csv"
    ELSE IF env.export_raises THEN "convert_csv_to_parquet"
    ELSE "none"

\* what the body did for the file: the call that raised out of it and what
\* validate_csv_columns did, "not_called" if the body did not come to it
outcome(item, d, env, correct) ==
    LET at == raised_at(item, d, env, correct)
    IN [name |-> item.name,
        raised_at |-> at,
        validation |-> IF at \in {"analyze_csv_columns", "correct_csv",
                                  "csv_validate_columns_number"}
                       THEN "not_called" ELSE env.validation]

\* the lists after the body of the loop has run for the file: the branches
\* of if args.correct
process_file(ls, item, d, env, correct) ==
    LET validation_error == env.validation \in {"invalid", "raises"}
        has_pandera_warnings == env.validation = "valid_with_warnings"
        at == raised_at(item, d, env, correct)
    IN IF correct
       THEN LET a == analyze_csv_columns(item.content, item.readable, d)
                corrections_needed == Len(a.ret.problematic_lines_list) > 0
                recorded == record_status(ls, item.name, validation_error,
                                          has_pandera_warnings, corrections_needed)
            IN IF at \in {"analyze_csv_columns", "correct_csv"}
               THEN [ls EXCEPT !.files_with_errors = record_error(@, item.name)]
               ELSE IF at = "convert_csv_to_parquet"
               THEN [recorded EXCEPT !.files_with_errors = record_error(@, item.name)]
               ELSE recorded
       ELSE IF at = "csv_validate_columns_number"
            THEN [ls EXCEPT !.files_with_errors = record_error(@, item.name)]
            ELSE record_status(ls, item.name, validation_error, has_pandera_warnings, FALSE)

BatchNames == <<"f1.txt", "f2.txt", "f3.txt">>

\* an empty file, a file without anomaly, a file with an anomalous line; a
\* file that cannot be opened
BatchItems ==
    {[content |-> c, readable |-> TRUE] : c \in {<< >>, <<Line3>>, <<Line3, Line1>>}}
    \cup {[content |-> << >>, readable |-> FALSE]}

\* the csv path of each of n converted txt files: two txt files with the same
\* stem once the spaces are replaced (f1.txt and f1.TXT, "a b.txt" and
\* "a_b.txt") are converted to the same path; the paths are numbered in the
\* order of their first conversion
CsvPaths(n) ==
    {csv \in [1..n -> 1..n] :
        \A i \in 1..n : csv[i] = 1 \/ \E j \in 1..(i - 1) : csv[j] >= csv[i] - 1}

\* converted_files holds one entry per converted txt file. The entries of
\* the same csv path are the same file: its content is what the last
\* conversion to that path wrote, and its name is the first txt file of
\* txt_to_csv_mapping that was converted to it.
Batches ==
    UNION {{[i \in 1..n |-> [name |-> BatchNames[csv[i]], content |-> b[csv[i]].content,
                             readable |-> b[csv[i]].readable]] :
               csv \in CsvPaths(n), b \in [1..n -> BatchItems]} : n \in 1..MaxFiles}

InitBatch ==
    /\ IdleCall
    /\ IdleUnit
    /\ IdleLegacy
    /\ entry = "main"
    /\ delimiter \in Delimiters
    /\ args_correct \in BOOLEAN
    /\ converted_files \in Batches
    /\ processed = << >>
    /\ files_ok = << >>
    /\ files_with_corrections = << >>
    /\ files_with_warnings = << >>
    /\ files_with_errors = << >>

\* one iteration of for idx, csv_file in enumerate(converted_files, start=1)
ProcessFile ==
    /\ entry = "main"
    /\ Len(processed) < Len(converted_files)
    /\ \E env \in Envs(args_correct) :
        LET item == converted_files[Len(processed) + 1]
            ls == process_file([files_ok |-> files_ok,
                                files_with_corrections |-> files_with_corrections,
                                files_with_warnings |-> files_with_warnings,
                                files_with_errors |-> files_with_errors],
                               item, delimiter, env, args_correct)
        IN /\ files_ok' = ls.files_ok
           /\ files_with_corrections' = ls.files_with_corrections
           /\ files_with_warnings' = ls.files_with_warnings
           /\ files_with_errors' = ls.files_with_errors
           /\ processed' = Append(processed, outcome(item, delimiter, env, args_correct))
    /\ UNCHANGED <<args_correct, converted_files, unitVars, legacyVars, inputVars, pc, enc, pos,
                   failed_at, analyzeVars, repairVars, recorderVars, summaryVars>>

NextBatch == ProcessFile

SpecBatch == InitBatch /\ [][NextBatch]_vars

(***************************************************************************)
(* Vocabulary of the properties.                                           *)
(***************************************************************************)
\* the input and the output as text, line by line
InLines == DecodeAll(file, FALLBACK)
OutLines == SplitLines(Decode(outfile, FALLBACK))

\* the repair pass of correct_csv has returned: the output file is written
Corrected == entry = "correct_csv" /\ pc = "done"

\* the numbers of the non-blank physical lines of the input
NonBlankNums ==
    LET lines == InLines IN {i \in 1..Len(lines) : ~IsBlank(lines[i])}

\* the line the repair pass holds aside as header, 0 if none
RepairHeaderNum ==
    IF Len(file) > 0 /\ IsHeader(RStripNL(InLines[1]), delimiter) THEN 1 ELSE 0

\* the numbers of the input lines a write carries, all writes in order
RECURSIVE Flatten(_)
Flatten(ss) == IF Len(ss) = 0 THEN << >> ELSE Head(ss) \o Flatten(Tail(ss))

\* the lines of the given numbers, each terminator but the last replaced by one space
RECURSIVE JoinLines(_)
JoinLines(nums) ==
    IF Len(nums) = 1 THEN InLines[nums[1]]
    ELSE RStripNL(InLines[nums[1]]) \o <<" ">> \o JoinLines(Tail(nums))

(***************************************************************************)
(* Properties of the repair pass.                                          *)
(***************************************************************************)
\* the header was held aside and written: it is the first record of the output
HeaderWritten == RepairHeaderNum # 0 /\ Len(src.out) > 0 /\ src.out[1] = <<RepairHeaderNum>>

\* the output records that are flushed buffers
DataRecords == {k \in 1..Len(src.out) : ~(HeaderWritten /\ k = 1)}

\* C1: when correct_csv completes, every non-blank physical line of the input
\* is carried by exactly one record of the output, exactly once (the header
\* line by the header record, written once, every other line by one flushed
\* buffer whose text contains it); blank lines are in no record.
C1_EveryLineInOneRecord ==
    Corrected =>
        LET flat == Flatten(src.out) IN
        /\ Len(OutLines) = Len(src.out)
        /\ \A m \in 1..Len(flat) : flat[m] \in NonBlankNums
        /\ \A i \in NonBlankNums : Cardinality({m \in 1..Len(flat) : flat[m] = i}) = 1
        /\ RepairHeaderNum # 0 => HeaderWritten
        /\ \A k \in DataRecords : \A j \in 1..Len(src.out[k]) :
               /\ src.out[k][j] # RepairHeaderNum
               /\ Contains(OutLines[k], RStripNL(InLines[src.out[k][j]]))

\* a completed repair of a file with a held header that merged two lines
C1_Witness ==
    /\ Corrected
    /\ HeaderWritten
    /\ \E k \in DataRecords : Len(src.out[k]) >= 2

\* a completed repair that dropped a blank line between two merged lines
C1_WitnessBlank ==
    /\ Corrected
    /\ \E k \in DataRecords : \E j \in 1..(Len(src.out[k]) - 1) :
           /\ src.out[k][j + 1] = src.out[k][j] + 2
           /\ IsBlank(InLines[src.out[k][j] + 1])

\* the text of a line with its last field and the delimiter before it
\* removed (fields as csv.reader splits them), terminated by "\n"
CutLastField(line, d) ==
    LET s == RStripNL(line)
        n == Len(CsvRow(s, d))
        i == CHOOSE k \in 1..Len(s) :
                 /\ s[k] = d
                 /\ Len(CsvRow(SubSeq(s, 1, k), d)) = n
                 /\ \A m \in (k + 1)..Len(s) :
                        ~(s[m] = d /\ Len(CsvRow(SubSeq(s, 1, m), d)) = n)
    IN SubSeq(s, 1, i - 1) \o <<LF>>

\* C2 as stated: the output preserves order and content: the lines carried by the
\* records, read record by record, are the non-blank input lines in strictly
\* increasing line-number order; a data record is its lines joined by one
\* space in place of each removed terminator; the header record is the header
\* line, verbatim or with its last field cut.
C2_OrderAndContent ==
    Corrected =>
        LET flat == Flatten(src.out) IN
        /\ flat = SortedSeq(NonBlankNums)
        /\ Len(OutLines) = Len(src.out)
        /\ \A k \in DataRecords : OutLines[k] = JoinLines(src.out[k])
        /\ HeaderWritten =>
               \/ OutLines[1] = InLines[RepairHeaderNum]
               \/ OutLines[1] = CutLastField(InLines[RepairHeaderNum], delimiter)

\* a completed repair that wrote two records, the second one merged from a
\* line ending in "\r\n" and the line after it
C2_Witness ==
    /\ Corrected
    /\ \E k \in DataRecords :
           /\ Len(src.out[k]) >= 2
           /\ k > 1
           /\ Contains(InLines[src.out[k][1]], <<CR, LF>>)

(***************************************************************************)
(* Break-then-repair: the input read as a table of records whose lines     *)
(* were broken into fragments.  starts is the set of the numbers of the    *)
(* lines that begin a record.                                              *)
(***************************************************************************)
\* the lines of the record that begins at line a
GroupOf(starts, a) ==
    LET b == IF \E x \in starts : x > a
             THEN (CHOOSE x \in starts : x > a /\ \A y \in starts : y > a => x <= y) - 1
             ELSE Len(file)
    IN [j \in 1..(b - a + 1) |-> a + j - 1]

\* the groups of the records, in file order
Groups(starts) ==
    LET ss == SortedSeq(starts) IN [k \in 1..Len(ss) |-> GroupOf(starts, ss[k])]

\* the number of delimiters in the lines of a group
RECURSIVE GroupDelims(_)
GroupDelims(g) ==
    IF Len(g) = 0 THEN 0
    ELSE CountChar(InLines[g[1]], delimiter) + GroupDelims(Tail(g))

\* the file is a table of records of w >= 2 fields without quote characters,
\* some broken into non-blank fragments, at least one left unbroken
BrokenTable(starts, w) ==
    /\ Len(file) > 0
    /\ 1 \in starts
    /\ w >= 2
    /\ \A i \in 1..Len(file) :
           /\ ~IsBlank(InLines[i])
           /\ \A c \in 1..Len(InLines[i]) : InLines[i][c] \notin {QUOTE, APOS}
    /\ \A a \in starts : GroupDelims(GroupOf(starts, a)) = w - 1
    /\ \E a \in starts : Len(GroupOf(starts, a)) = 1

\* every inserted break lies before the last delimiter of its record
BreaksBeforeLastDelimiter(starts) ==
    \A a \in starts :
        LET g == GroupOf(starts, a)
        IN Len(g) > 1 => CountChar(InLines[g[Len(g)]], delimiter) >= 1

\* one output record per original record, in order, of w fields, equal to
\* the record with every inserted break replaced by one space
Repaired(starts, w) ==
    LET gs == Groups(starts) IN
    /\ Len(OutLines) = Len(gs)
    /\ \A k \in 1..Len(gs) :
           /\ OutLines[k] = JoinLines(gs[k])
           /\ count_columns_in_line_fast(RStripNL(OutLines[k]), delimiter) = w

\* C3 as stated: breaks at arbitrary positions of the records
C3_Original ==
    Corrected =>
        \A starts \in SUBSET (1..Len(file)) : \A w \in 2..rc_expected :
            BrokenTable(starts, w) => Repaired(starts, w)

\* C3, amended: break-then-repair round trip for a table of records of W >= 2
\* fields without quote characters whose first line does not match the
\* header test, where every inserted break lies before the last delimiter of
\* its record and at least one record is unbroken: correct_csv writes one
\* record per original record, in order, of W fields, equal to the original
\* with every inserted break replaced by one space.
C3_RoundTripBeforeLastDelimiter ==
    Corrected =>
        \A starts \in SUBSET (1..Len(file)) : \A w \in 2..(rc_expected + 1) :
            (/\ BrokenTable(starts, w)
             /\ BreaksBeforeLastDelimiter(starts)
             /\ RepairHeaderNum = 0
             /\ delimiter # " ")
            => (rc_expected = w /\ Repaired(starts, w))

\* a repaired table of at least two records, one of them broken into
\* fragments before its last delimiter
C3_Witness ==
    /\ Corrected
    /\ \E starts \in SUBSET (1..Len(file)) :
           /\ BrokenTable(starts, rc_expected)
           /\ BreaksBeforeLastDelimiter(starts)
           /\ RepairHeaderNum = 0
           /\ \E a \in starts : Len(GroupOf(starts, a)) >= 2
           /\ Cardinality(starts) >= 2
           /\ Repaired(starts, rc_expected)

(***************************************************************************)
(* Width of the flushed records.                                           *)
(***************************************************************************)
\* the repair pass is running or has returned
Repairing == entry = "correct_csv" /\ pc \in {"repair", "done"}

\* the flushed buffers in the output other than the flush at end of file
NonFinalFlushes == {k \in DataRecords : pc = "repair" \/ k < Len(src.out)}

\* the field count of a text without its terminator
Fields(text) == count_columns_in_line_fast(RStripNL(text), delimiter)

\* record k carries an input line whose own field count exceeds the width
HasOverWidthInput(k) ==
    \E j \in 1..Len(src.out[k]) : Fields(InLines[src.out[k][j]]) > rc_expected

\* C4 as stated: flushed records other than the end-of-file flush and
\* over-width input lines have exactly the expected width
C4_Original ==
    Repairing =>
        \A k \in NonFinalFlushes :
            ~HasOverWidthInput(k) => Fields(OutLines[k]) = rc_expected

\* C4, amended: every record flushed before the end-of-file flush has at least
\* the expected width; it has exactly the expected width unless it is an
\* over-width input line or a merge whose last line took the buffer from
\* below the expected width to above it.
C4_FlushedWidth ==
    Repairing =>
        /\ Len(OutLines) = Len(src.out)
        /\ \A k \in NonFinalFlushes :
               /\ Fields(OutLines[k]) >= rc_expected
               /\ Fields(OutLines[k]) > rc_expected =>
                      \/ Len(src.out[k]) = 1 /\ HasOverWidthInput(k)
                      \/ /\ Len(src.out[k]) >= 2
                         /\ Fields(JoinLines(DropLast(src.out[k]))) < rc_expected

\* the repair has returned and its output holds, before the end-of-file
\* flush, a merged record above the expected width
C4_Witness ==
    /\ Corrected
    /\ \E k \in NonFinalFlushes :
           Len(src.out[k]) >= 2 /\ Fields(OutLines[k]) > rc_expected

\* the repair has returned and its output holds, before the end-of-file
\* flush, a merged record of exactly the expected width
C4_WitnessExact ==
    /\ Corrected
    /\ \E k \in NonFinalFlushes :
           Len(src.out[k]) >= 2 /\ Fields(OutLines[k]) = rc_expected

\* C5: the number of records (non-blank lines, header included) of the file
\* correct_csv writes is at most the number of non-blank lines of the input.
C5_RecordCountNotIncreased ==
    Corrected => CountNonBlank(OutLines) <= CountNonBlank(InLines)

\* a completed repair with a written header whose output has fewer records
\* than the input has non-blank lines
C5_Witness ==
    /\ Corrected
    /\ HeaderWritten
    /\ CountNonBlank(OutLines) < CountNonBlank(InLines)

(***************************************************************************)
(* Properties of the analysis.                                             *)
(***************************************************************************)
\* analyze_csv_columns has returned
Analyzed == pc \in {"done", "correct", "repair"}

\* analyze_csv_columns returns: to correct_csv, or to the caller
Returned == pc = "correct" \/ (pc = "done" /\ entry = "analyze_csv_columns")

\* the line the analysis classifies as header, 0 if none: the first
\* non-blank line, if it passes the header test
AnalysisHeaderNum ==
    LET nums == NonBlankNums
    IN IF nums = {} THEN 0
       ELSE LET first == CHOOSE i \in nums : \A j \in nums : i <= j
            IN IF IsHeader(RStripNL(InLines[first]), delimiter) THEN first ELSE 0

\* the numbers of the data lines: non-blank, not the header
DataNums == NonBlankNums \ {AnalysisHeaderNum}

\* the field count of every line of the input
LineWidths == [i \in 1..Len(file) |-> Fields(InLines[i])]

\* for the data lines dn and the field counts fw of the lines: the field
\* counts seen on data lines, how many data lines have a count, and the first
\* data line that has it
Widths(dn, fw) == {fw[i] : i \in dn}
Frequency(dn, fw, w) == Cardinality({i \in dn : fw[i] = w})
FirstSeen(dn, fw, w) == CHOOSE i \in dn : fw[i] = w /\ \A j \in dn : fw[j] = w => i <= j
DataWidths == Widths(DataNums, LineWidths)

\* the anomalous lines for an expected width e
Anomalous(i, e) ==
    /\ i \in NonBlankNums
    /\ IF i = AnalysisHeaderNum
       THEN Fields(InLines[i]) # e /\ Fields(InLines[i]) # e + 1
       ELSE Fields(InLines[i]) # e

\* C6 as stated: if the analysis reports no anomalous line (under the most-frequent
\* width as correct_csv calls it, or under the maximum width), the repair of
\* the file merges nothing (lines_corrected = 0) and writes as many records
\* as the input has non-blank lines.
C6_NoAnomalyNoMerge ==
    Corrected =>
        LET quiet_max ==
                LocateRun(locate_init, InLines, 1, delimiter,
                          resolve_expected(ret.column_counter, FALSE)).problematic_lines
                = << >>
        IN (ret.problematic_lines_list = << >> \/ quiet_max) =>
               /\ result[2] = 0
               /\ CountNonBlank(OutLines) = CountNonBlank(InLines)

\* C7: the registry analyze_csv_columns returns holds exactly the anomalous
\* lines under their 1-based physical line numbers (blank lines counted): the
\* data lines whose field count differs from the expected width, and the
\* header iff its count differs from the width and from the width + 1; each
\* value is the line's field count; the returned list is the keys, ascending.
C7_RegistryExact ==
    Returned =>
        LET reg == ret.problematic_lines
            lst == ret.problematic_lines_list
        IN
        /\ DictKeys(reg) = {i \in 1..Len(file) : Anomalous(i, ret.expected_columns)}
        /\ Len(reg) = Cardinality(DictKeys(reg))
        /\ \A m \in 1..Len(reg) : reg[m][2] = Fields(InLines[reg[m][1]])
        /\ {lst[m] : m \in 1..Len(lst)} = DictKeys(reg)
        /\ \A m \in 1..(Len(lst) - 1) : lst[m] < lst[m + 1]

\* a returned analysis of a file whose header, after a blank line, is
\* anomalous, with a regular data line
C7_Witness ==
    /\ Returned
    /\ AnalysisHeaderNum > 1
    /\ AnalysisHeaderNum \in DictKeys(ret.problematic_lines)
    /\ \E i \in DataNums : i \notin DictKeys(ret.problematic_lines)

\* a returned analysis with an anomalous and a regular data line after a
\* blank line
C7_WitnessData ==
    /\ Returned
    /\ IsBlank(InLines[1])
    /\ \E i \in DataNums : i \in DictKeys(ret.problematic_lines)
    /\ \E i \in DataNums : i \notin DictKeys(ret.problematic_lines)

\* the same with a header that is regular because it has one column more
\* than the expected width
C7_WitnessTolerated ==
    /\ Returned
    /\ AnalysisHeaderNum # 0
    /\ Fields(InLines[AnalysisHeaderNum]) = ret.expected_columns + 1
    /\ ret.problematic_lines # << >>

\* C8: the width the repair uses is the largest field count of any data line
\* (header excluded): it is at least the most frequent width and at least
\* the maximum width, it is >= 1 and it is a key of the distribution.
C8_RepairWidthIsMaximum ==
    Corrected =>
        LET dn == DataNums
            fw == LineWidths
            ws == Widths(dn, fw)
        IN
        /\ \A w \in ws : w <= rc_expected
        /\ rc_expected \in ws
        /\ rc_expected >= 1
        /\ rc_expected \in CounterKeys(ret.column_counter)
        /\ CounterKeys(ret.column_counter) = ws
        /\ \A w \in ws :
               (\A v \in ws : Frequency(dn, fw, v) <= Frequency(dn, fw, w))
               => w <= rc_expected

\* a completed repair whose width is above the most frequent width of the file
C8_Witness ==
    /\ Corrected
    /\ \E w \in DataWidths :
           /\ \A v \in DataWidths \ {w} :
                  Frequency(DataNums, LineWidths, v) < Frequency(DataNums, LineWidths, w)
           /\ w < rc_expected

\* C9: under the most-frequent policy analyze_csv_columns returns the width
\* of the highest frequency of the distribution and, among the widths that
\* tie for it, the one whose first data line comes first in the file; under
\* the maximum policy it returns the largest width present.
C9_ResolverPolicies ==
    Returned =>
        LET dn == DataNums
            fw == LineWidths
            ws == Widths(dn, fw)
            e == ret.expected_columns
        IN
        IF use_most_frequent
        THEN /\ e \in ws
             /\ \A w \in ws : Frequency(dn, fw, w) <= Frequency(dn, fw, e)
             /\ \A w \in ws :
                    Frequency(dn, fw, w) = Frequency(dn, fw, e)
                    => FirstSeen(dn, fw, e) <= FirstSeen(dn, fw, w)
        ELSE /\ e \in ws
             /\ \A w \in ws : w <= e

\* a width returned under the most-frequent policy out of a tie that a larger
\* width and a smaller width lose by coming later
C9_Witness ==
    /\ Returned
    /\ use_most_frequent
    /\ \E w \in DataWidths :
           /\ w > ret.expected_columns
           /\ Frequency(DataNums, LineWidths, w)
                  = Frequency(DataNums, LineWidths, ret.expected_columns)
    /\ \E w \in DataWidths :
           /\ w < ret.expected_columns
           /\ Frequency(DataNums, LineWidths, w)
                  = Frequency(DataNums, LineWidths, ret.expected_columns)

\* a width returned under the maximum policy that is not the most frequent
C9_WitnessMaximum ==
    /\ Returned
    /\ ~use_most_frequent
    /\ \E w \in DataWidths :
           Frequency(DataNums, LineWidths, w)
               > Frequency(DataNums, LineWidths, ret.expected_columns)

(***************************************************************************)
(* Decode fallback.                                                        *)
(***************************************************************************)
\* the file holds a byte the requested encoding does not decode
NeedsFallback == FirstBad(file, encoding) # 0

\* C10: when the requested encoding fails, each pass ends with the result of
\* a run under latin-1 from the first line: the distribution, the header
\* width and the line counts of pass 1, the registry of pass 2, the bytes of
\* the output file and the returned counters of the repair; nothing of the
\* failed attempt remains.
C10_FallbackAllOrNothing ==
    NeedsFallback =>
        LET lines == InLines
            pass1 == FreqRun(freq_init, lines, 1, delimiter)
        IN
        /\ pc \in {"pass2", "raised", "done", "correct", "repair"} => p1 = pass1
        /\ Analyzed =>
               /\ ret.column_counter = pass1.column_counter
               /\ ret.problematic_lines =
                      LocateRun(locate_init, lines, 1, delimiter,
                                ret.expected_columns).problematic_lines
        /\ Corrected =>
               LET r == RepairRun([st |-> repair_init, out |-> << >>], lines, 1,
                                  delimiter, rc_expected, FALLBACK)
               IN /\ outfile = r.out
                  /\ result = <<r.st.lines_written, r.st.lines_corrected>>

\* a completed repair whose attempt under the requested encoding failed after
\* two lines were read and one record written
C10_Witness ==
    /\ Corrected
    /\ NeedsFallback
    /\ failed_at = 2
    /\ RepairHeaderNum = 0
    /\ \A i \in 1..2 : ~IsBlank(InLines[i]) /\ Fields(InLines[i]) = rc_expected
    /\ result[1] >= 3

(***************************************************************************)
(* The empty-input error of analyze_csv_columns.                           *)
(***************************************************************************)
\* pass 1 is over and analyze_csv_columns went on to resolve the width
PastPass1 == pc \in {"pass2", "correct", "repair", "done"}

\* C11: analyze_csv_columns raises the empty-input error exactly when the file
\* holds no non-blank line other than a detected header (empty, blank-only or
\* header-only file); it then returns no expected width and no registry, and
\* when the file holds a data line pass 1 ends without the error.
C11_EmptyInputError ==
    /\ pc = "raised" =>
           /\ DataNums = {}
           /\ expected_columns = NoneInt
           /\ ret = NoReturn
    /\ PastPass1 => DataNums # {}

\* the error was raised on a file of a header and a blank line
C11_Witness ==
    /\ pc = "raised"
    /\ AnalysisHeaderNum # 0
    /\ \E i \in 1..Len(file) : IsBlank(InLines[i])

\* pass 1 ended without the error on a file whose only data line follows a
\* header
C11_WitnessData ==
    /\ PastPass1
    /\ AnalysisHeaderNum # 0
    /\ Cardinality(DataNums) = 1

(***************************************************************************)
(* The header as the repair and as the analysis see it.                    *)
(***************************************************************************)
\* C12 as stated: the line the repair pass holds aside as header is the line
\* the two passes of the analysis classify as header, the first non-blank
\* line when it passes the header test, also when blank lines precede it.
C12_SameHeader ==
    Corrected =>
        /\ src.hdr = AnalysisHeaderNum
        /\ (rc.header_line # NoneStr) <=> (p1.header_columns # NoneInt)
        /\ rc.header_line # NoneStr => rc.header_line = InLines[AnalysisHeaderNum]

(***************************************************************************)
(* The header in the repair pass.                                          *)
(***************************************************************************)
\* the first non-blank line after the held header among the lines read, 0 if none
FirstDataAfterHeader ==
    LET after == {i \in (src.hdr + 1)..pos : ~IsBlank(InLines[i])}
    IN IF after = {} THEN 0 ELSE CHOOSE i \in after : \A j \in after : i <= j

\* C13 as stated: a held header is written exactly once, before any data
\* record, when the first non-blank data line is read; it is written with its
\* last field dropped if its field count is the field count of that data line
\* plus one, unchanged otherwise.
C13_HeaderWrittenOnce ==
    (Repairing /\ src.hdr # 0) =>
        LET header == InLines[src.hdr]
            first == FirstDataAfterHeader
        IN IF first = 0
           THEN outfile = << >> /\ src.out = << >>
           ELSE /\ Len(OutLines) >= 1
                /\ src.out[1] = <<src.hdr>>
                /\ \A k \in 2..Len(src.out) : \A j \in 1..Len(src.out[k]) :
                       src.out[k][j] # src.hdr
                /\ IF Fields(header) = Fields(InLines[first]) + 1
                   THEN RStripNL(OutLines[1]) = RStripNL(CutLastField(header, delimiter))
                   ELSE OutLines[1] = header

\* the header handling holds of the headers without quote characters
HeaderTrimUnquoted ==
    (Len(file) > 0 /\ \A c \in 1..Len(InLines[1]) : InLines[1][c] \notin {QUOTE, APOS}) => C13_HeaderWrittenOnce

(***************************************************************************)
(* Properties of the rejection recorder, as main runs it on a file after   *)
(* analyze_csv_columns.                                                    *)
(***************************************************************************)
\* main is past the recorder, run or skipped
RecorderDone == caller = "main" /\ (pc = "call_correct" \/ entry = "correct_csv")

\* the anomalous line numbers main passes to the recorder
ProblematicSet == SeqToSet(ret.problematic_lines_list)

\* the line numbers of the rejection set, in the order of the list
RejectedNums == [i \in 1..Len(col.rejected_lines) |-> col.rejected_lines[i][1]]

\* the lines of the rejection file, terminators removed
RejectionFileLines ==
    LET ls == SplitLines(Decode(rejected_file.content, "utf-8"))
    IN [k \in 1..Len(ls) |-> RStripNL(ls[k])]

\* the recorder found a header to write: the first physical line is not blank
HeaderRecorded == Len(file) > 0 /\ ~IsBlank(InLines[1])

\* the lines of the rejection file after its header line
RejectionBody ==
    IF HeaderRecorded /\ Len(RejectionFileLines) > 0
    THEN Tail(RejectionFileLines) ELSE RejectionFileLines

\* the text of a line is a line of a sequence of lines
InBody(body, n) == \E k \in 1..Len(body) : body[k] = RStripNL(InLines[n])

\* C14: every line number of the result of the analysis has its line text,
\* terminator removed, as a line of the rejection file after the header line
\* of that file.
C14_RejectionComplete ==
    RecorderDone =>
        \A n \in ProblematicSet :
            /\ rejected_file.exists
            /\ InBody(RejectionBody, n)

\* a rejection file of a header line and two anomalous lines
C14_Witness ==
    /\ RecorderDone
    /\ HeaderRecorded
    /\ Cardinality(ProblematicSet) >= 2
    /\ rejected_file.exists
    /\ Len(RejectionFileLines) = 3

\* C15: the rejection set holds each anomalous line exactly once, in
\* ascending line-number order, with its text; the line that follows an
\* anomalous line is in the set if and only if its own number is anomalous,
\* and no line that is not anomalous is in the set.
C15_RejectionSet ==
    RecorderDone =>
        /\ RejectedNums = ret.problematic_lines_list
        /\ \A i \in 1..Len(RejectedNums) :
               /\ col.rejected_lines[i][2] = InLines[RejectedNums[i]]
               /\ \A j \in 1..Len(RejectedNums) : i < j => RejectedNums[i] < RejectedNums[j]
        /\ \A n \in ProblematicSet :
               n + 1 <= Len(file) =>
                   ((n + 1) \in SeqToSet(RejectedNums) <=> (n + 1) \in ProblematicSet)
        /\ SeqToSet(RejectedNums) \subseteq ProblematicSet

\* the recorder ran on two consecutive anomalous lines
C15_Witness ==
    /\ RecorderDone
    /\ \E n \in ProblematicSet : (n + 1) \in ProblematicSet
    /\ Len(col.rejected_lines) = 2

\* the recorder ran on an anomalous line followed by a line that is not anomalous
C15_WitnessFollowing ==
    /\ RecorderDone
    /\ \E n \in ProblematicSet :
           /\ n + 1 <= Len(file)
           /\ ~IsBlank(InLines[n + 1])
           /\ (n + 1) \notin ProblematicSet
           /\ (n + 1) \notin SeqToSet(RejectedNums)

\* C16 as stated: for every anomalous line that is not the last physical line
\* of the file, the rejection file holds that line and the line that follows it.
C16_Original ==
    RecorderDone =>
        \A n \in ProblematicSet :
            n + 1 <= Len(file) =>
                /\ InBody(RejectionFileLines, n)
                /\ InBody(RejectionFileLines, n + 1)

\* C16, amended: for every anomalous line that is not the last physical line
\* of the file, the rejection file holds that line after its header line, and
\* holds there the line that follows it if and only if that following line
\* is anomalous itself.
C16_FollowingIffAnomalous ==
    RecorderDone =>
        \A n \in ProblematicSet :
            n + 1 <= Len(file) =>
                /\ InBody(RejectionBody, n)
                /\ InBody(RejectionBody, n + 1) <=> (n + 1) \in ProblematicSet

\* a rejection file written for an anomalous line whose following line, not
\* blank and not anomalous, is left out, and for no other line
C16_Witness ==
    /\ RecorderDone
    /\ rejected_file.exists
    /\ \E n \in ProblematicSet :
           /\ n + 1 <= Len(file)
           /\ ~IsBlank(InLines[n + 1])
           /\ (n + 1) \notin ProblematicSet
           /\ ~InBody(RejectionBody, n + 1)

\* a rejection file written for two consecutive anomalous lines
C16_WitnessBoth ==
    /\ RecorderDone
    /\ rejected_file.exists
    /\ \E n \in ProblematicSet : (n + 1) \in ProblematicSet /\ InBody(RejectionBody, n + 1)

\* the first non-blank line of the file, terminator removed
FirstNonBlankLine ==
    RStripNL(InLines[CHOOSE i \in NonBlankNums : \A j \in NonBlankNums : i <= j])

\* C17 as stated: when the rejection set is not empty the rejection file is
\* the first non-blank line of the original file followed by the lines of the
\* rejection set in file order, one per line, each terminated by "\n"; when
\* the set is empty no file is created or changed.
C17_RejectionFile ==
    RecorderDone =>
        IF col.rejected_lines # << >>
        THEN /\ rejected_file.exists
             /\ Decode(rejected_file.content, "utf-8") =
                    Flatten(<<FirstNonBlankLine \o <<LF>>>>
                            \o [i \in 1..Len(col.rejected_lines) |->
                                   RStripNL(col.rejected_lines[i][2]) \o <<LF>>])
             /\ \A i, j \in 1..Len(RejectedNums) : i < j => RejectedNums[i] < RejectedNums[j]
        ELSE rejected_file \in {NoFile, [exists |-> TRUE, content |-> OldContent]}

\* the rejection file holds what C17 states whenever the first physical line
\* of the file is not blank
RejectionFileFirstLine ==
    HeaderRecorded => C17_RejectionFile

(***************************************************************************)
(* Scenario A.                                                             *)
(***************************************************************************)
\* the record the repair merges from lines 2 and 3: d;e f;g;h
ScenarioAMerged == ScenarioALines[2] \o <<" ">> \o ScenarioALines[3]

\* C18: on Scenario A the repair adopts the width 3, the analysis reports
\* line 2 alone, with 2 fields, and correct_csv writes the two records a;b;c
\* and d;e f;g;h and returns lines_written = 2 and lines_corrected = 1.
C18_ScenarioARepair ==
    Corrected =>
        /\ rc_expected = 3
        /\ ret.problematic_lines = << <<2, 2>> >>
        /\ ret.problematic_lines_list = <<2>>
        /\ OutLines = <<InLines[1], RStripNL(InLines[2]) \o <<" ">> \o InLines[3]>>
        /\ RStripNL(OutLines[1]) = ScenarioALines[1]
        /\ RStripNL(OutLines[2]) = ScenarioAMerged
        /\ result = <<2, 1>>

\* correct_csv has returned on Scenario A with line 2 ended by "\r\n"
C18_Witness ==
    /\ Corrected
    /\ Contains(InLines[2], <<CR, LF>>)
    /\ Len(OutLines) = 2

\* C19 as stated: on Scenario A the distribution is {3: 1, 2: 1} and the
\* most-frequent width, a tie broken by first occurrence, is 3.
C19_Original ==
    (Returned /\ use_most_frequent) =>
        /\ ret.column_counter = << <<3, 1>>, <<2, 1>> >>
        /\ ret.expected_columns = 3

\* C19, amended: on Scenario A (no header) the distribution is {3: 2, 2: 1},
\* lines 1 and 3 having 3 fields, so the most-frequent width is 3 without a
\* tie, and the maximum width is 3 too.
C19_ScenarioADistribution ==
    Returned =>
        /\ ret.column_counter = << <<3, 2>>, <<2, 1>> >>
        /\ p1.header_columns = NoneInt
        /\ ret.expected_columns = 3
        /\ \A w \in CounterKeys(ret.column_counter) \ {3} :
               CounterGet(ret.column_counter, w) < CounterGet(ret.column_counter, 3)

\* analyze_csv_columns has returned on Scenario A under the most-frequent policy
C19_Witness ==
    /\ Returned
    /\ entry = "analyze_csv_columns"
    /\ use_most_frequent
    /\ CounterTotal(ret.column_counter) = 3

\* C20 as stated: the record merged from d;e and f;g;h has 5 fields, over the
\* expected width 3.
C20_Original ==
    Corrected =>
        /\ RStripNL(OutLines[2]) = ScenarioAMerged
        /\ Fields(OutLines[2]) = 5
        /\ Fields(OutLines[2]) > rc_expected

\* C20, amended: the record d;e f;g;h merged from the 2-field line d;e and
\* the 3-field line f;g;h has 4 fields (d, e f, g, h: the joining space is no
\* delimiter), over the expected width 3.
C20_MergedWidth ==
    Corrected =>
        /\ Fields(InLines[2]) = 2
        /\ Fields(InLines[3]) = 3
        /\ RStripNL(OutLines[2]) = ScenarioAMerged
        /\ Fields(OutLines[2]) = 4
        /\ rc_expected = 3

\* correct_csv has returned on Scenario A and its second record carries
\* lines 2 and 3
C20_Witness ==
    /\ Corrected
    /\ Len(src.out) = 2
    /\ src.out[2] = <<2, 3>>

(***************************************************************************)
(* The field counter.                                                      *)
(***************************************************************************)
\* the line is pre "inner" post: one double-quoted field, inner, that opens
\* at the start of a field and closes at the end of one; no other double
\* quote in the line
OneQuotedField(text, d, pre, inner, post) ==
    /\ text = pre \o <<QUOTE>> \o inner \o <<QUOTE>> \o post
    /\ CountChar(pre, QUOTE) = 0
    /\ CountChar(inner, QUOTE) = 0
    /\ CountChar(post, QUOTE) = 0
    /\ pre = << >> \/ pre[Len(pre)] = d
    /\ post = << >> \/ post[1] = d

\* the positions of the double quotes of the line
QuotesAt(text) == {k \in 1..Len(text) : text[k] = QUOTE}

\* the record splitter raises "field larger than field limit" on the line
\* pre "inner" post: the quoted field, or a field in front of it or behind
\* it, is longer than field_size_limit characters
FieldOverLimit(d, pre, inner, post) ==
    \/ Len(inner) > field_size_limit
    \/ \E k \in 1..Len(Split(pre, d)) : Len(Split(pre, d)[k]) > field_size_limit
    \/ \E k \in 1..Len(Split(post, d)) : Len(Split(post, d)[k]) > field_size_limit

\* C21 as stated: count_columns_in_line_fast returns occurrences(delimiter)
\* + 1 on a line with neither '"' nor "'"; on a line with one double-quoted
\* field the delimiters inside the quoted field separate nothing (the count
\* is that of the delimiters outside it, plus 1; a;"b;c";d gives 3); the
\* result is always at least 1.
C21_Original ==
    fc_ret # NoneInt =>
        /\ fc_ret >= 1
        /\ (CountChar(fc_line, QUOTE) = 0 /\ CountChar(fc_line, APOS) = 0)
               => fc_ret = CountChar(fc_line, delimiter) + 1
        /\ \A i \in QuotesAt(fc_line) : \A j \in QuotesAt(fc_line) \ (1..i) :
               LET pre == SubSeq(fc_line, 1, i - 1)
                   inner == SubSeq(fc_line, i + 1, j - 1)
                   post == SubSeq(fc_line, j + 1, Len(fc_line))
               IN OneQuotedField(fc_line, delimiter, pre, inner, post)
                      => fc_ret = CountChar(pre, delimiter) + CountChar(post, delimiter) + 1
        /\ fc_line = ScenarioBLine => fc_ret = 3

\* C21, amended: count_columns_in_line_fast returns occurrences(delimiter)
\* + 1 on a line with neither '"' nor "'"; on a line with one double-quoted
\* field and no field longer than the field limit of the record splitter,
\* the delimiters inside the quoted field separate nothing (a;"b;c";d
\* gives 3); when a field of such a line is longer than the field limit the
\* result is occurrences(delimiter) + 1, the delimiters inside the quoted
\* field counted; the result is always at least 1.
C21_FieldCounter ==
    fc_ret # NoneInt =>
        /\ fc_ret >= 1
        /\ (CountChar(fc_line, QUOTE) = 0 /\ CountChar(fc_line, APOS) = 0)
               => fc_ret = CountChar(fc_line, delimiter) + 1
        /\ \A i \in QuotesAt(fc_line) : \A j \in QuotesAt(fc_line) \ (1..i) :
               LET pre == SubSeq(fc_line, 1, i - 1)
                   inner == SubSeq(fc_line, i + 1, j - 1)
                   post == SubSeq(fc_line, j + 1, Len(fc_line))
               IN OneQuotedField(fc_line, delimiter, pre, inner, post)
                      => fc_ret = IF FieldOverLimit(delimiter, pre, inner, post)
                                  THEN CountChar(fc_line, delimiter) + 1
                                  ELSE CountChar(pre, delimiter)
                                       + CountChar(post, delimiter) + 1
        /\ fc_line = ScenarioBLine => fc_ret = 3

\* the call has returned on the line of Scenario B
C21_Witness ==
    /\ fc_line = ScenarioBLine
    /\ fc_ret = 3
    /\ CountChar(fc_line, delimiter) = 3

\* the call has returned on a line of at most MaxLineLen characters whose
\* quoted field holds a delimiter
C21_WitnessShort ==
    /\ fc_ret # NoneInt
    /\ Len(fc_line) <= MaxLineLen
    /\ \E i \in 1..Len(fc_line) : \E j \in (i + 1)..Len(fc_line) :
           /\ OneQuotedField(fc_line, delimiter, SubSeq(fc_line, 1, i - 1),
                             SubSeq(fc_line, i + 1, j - 1),
                             SubSeq(fc_line, j + 1, Len(fc_line)))
           /\ CountChar(SubSeq(fc_line, i + 1, j - 1), delimiter) > 0
           /\ i > 1

\* the call has returned on a line whose quoted field holds a delimiter and
\* is longer than the field limit: the record splitter has failed and the
\* delimiter inside the quoted field is counted
C21_WitnessFallback ==
    /\ fc_ret # NoneInt
    /\ \E i \in QuotesAt(fc_line) : \E j \in QuotesAt(fc_line) \ (1..i) :
           LET pre == SubSeq(fc_line, 1, i - 1)
               inner == SubSeq(fc_line, i + 1, j - 1)
               post == SubSeq(fc_line, j + 1, Len(fc_line))
           IN /\ OneQuotedField(fc_line, delimiter, pre, inner, post)
              /\ FieldOverLimit(delimiter, pre, inner, post)
              /\ CountChar(inner, delimiter) > 0
              /\ fc_ret = CountChar(fc_line, delimiter) + 1

(***************************************************************************)
(* The batch of main.                                                      *)
(***************************************************************************)
ErrorNames == SeqToSet(files_with_errors)
WarningNames == SeqToSet(files_with_warnings)
CorrectionNames == SeqToSet(files_with_corrections)
OkNames == SeqToSet(files_ok)

\* the loop has gone through the files in the order of converted_files,
\* skipping none
InOriginalOrder ==
    /\ Len(processed) <= Len(converted_files)
    /\ \A i \in 1..Len(processed) : processed[i].name = converted_files[i].name

\* C22 as stated: a file whose processing raises (analysis, repair,
\* validation or export) is recorded in the errors list, and the files after
\* it are processed in the original order.
C22_Original ==
    /\ InOriginalOrder
    /\ \A i \in 1..Len(processed) :
           (processed[i].raised_at # "none" \/ processed[i].validation = "raises")
               => processed[i].name \in ErrorNames

\* what the lists hold of the files the loop has gone through: the names of
\* the errors list are those of the iterations that raised (two iterations on
\* the same csv path have the same name)
RaisedRecorded ==
    /\ ErrorNames = {processed[i].name : i \in {j \in 1..Len(processed) :
                                                  processed[j].raised_at # "none"}}
    /\ \A i \in 1..Len(processed) :
           processed[i].validation = "raises" => processed[i].name \in WarningNames

\* C22, amended: a file whose analysis, repair or Parquet export (correction
\* mode) or whose check of the column numbers (validation mode) raises is
\* recorded in the errors list, and no other file is; a file whose validation
\* by validate_csv_columns raises is recorded in the warnings list and its
\* processing goes on; whatever the files before it raised, every step of
\* the loop processes the next converted file, in the original order.
C22_BatchIsolation ==
    [][/\ Len(processed') = Len(processed) + 1
       /\ InOriginalOrder'
       /\ RaisedRecorded']_vars

\* the analysis of the first file has raised, the validation of the second
\* one has, and the loop has gone through both
C22_Witness ==
    /\ Len(processed) = 2
    /\ processed[1].raised_at = "analyze_csv_columns"
    /\ processed[2].validation = "raises"
    /\ processed[2].raised_at = "none"
    /\ ErrorNames = {processed[1].name}

\* the export of a file has raised after its validation had
C22_WitnessExport ==
    /\ Len(processed) >= 1
    /\ processed[1].validation = "raises"
    /\ processed[1].raised_at = "convert_csv_to_parquet"
    /\ processed[1].name \in ErrorNames \cap WarningNames

\* two txt files were converted to the same csv path: the loop has gone
\* through the file twice under the same name, the export has raised the
\* first time only
C22_WitnessSameCsv ==
    /\ Len(processed) = 2
    /\ converted_files[1] = converted_files[2]
    /\ processed[1].raised_at = "convert_csv_to_parquet"
    /\ processed[2].raised_at = "none"
    /\ files_with_errors = <<processed[2].name>>

\* validation mode: the check of the column numbers of the first file has
\* raised, the validation of the second one has, and the loop has gone
\* through both
C22_WitnessValidationMode ==
    /\ ~args_correct
    /\ Len(processed) = 2
    /\ processed[1].raised_at = "csv_validate_columns_number"
    /\ processed[2].validation = "raises"
    /\ files_with_errors = <<processed[1].name>>
    /\ processed[2].name \in WarningNames

\* C29: in the summary of main in correction mode a file of the ok list is in
\* none of the errors, corrections and warnings lists, and every processed
\* file is in at least one of the four lists.
C29_SummaryLists ==
    args_correct => \A i \in 1..Len(processed) :
        LET name == processed[i].name IN
        /\ name \in OkNames => name \notin (ErrorNames \cup CorrectionNames \cup WarningNames)
        /\ name \in (OkNames \cup ErrorNames \cup CorrectionNames \cup WarningNames)

(***************************************************************************)
(* The pipeline of main: the locator works with the most frequent width,   *)
(* the repair with the larger of that width and the maximum width.         *)
(***************************************************************************)
\* main has run the locator, the recorder and correct_csv on the file
MainCorrected == caller = "main" /\ Corrected

\* record k of the output is assembled from two or more physical lines
Assembled(k) == k \in DataRecords /\ Len(src.out[k]) >= 2

\* the lines of record k that have the most frequent width
FrequentLines(k) ==
    {j \in 1..Len(src.out[k]) : Fields(InLines[src.out[k][j]]) = ret.expected_columns}

\* C23: in the pipeline as main runs it, every record the repair assembles
\* from two or more physical lines contains a line the locator reported as
\* anomalous, and no record holds two lines of the most frequent width.
C23_MergesHoldAnomalousLine ==
    MainCorrected =>
        \A k \in 1..Len(src.out) :
            Assembled(k) =>
                /\ \E j \in 1..Len(src.out[k]) : src.out[k][j] \in ProblematicSet
                /\ Cardinality(FrequentLines(k)) <= 1

(***************************************************************************)
(* A buffer below the expected width waits for the lines that remain.      *)
(***************************************************************************)
\* the last input line record k carries
LastLineOf(k) == src.out[k][Len(src.out[k])]

\* a non-blank input line remains after the lines of record k
NonBlankRemainsAfter(k) == \E n \in NonBlankNums : n > LastLineOf(k)

\* C24: a buffer below the expected width is never flushed while a further
\* non-blank input line remains: while the repair runs and when it has
\* returned, every data record of the output that is followed in the input
\* by a non-blank line has at least the expected width, whether or not blank
\* lines lie between its lines or after them.
C24_ShortBufferNotFlushed ==
    Repairing =>
        LET written == OutLines
        IN \A k \in DataRecords :
               NonBlankRemainsAfter(k) => Fields(written[k]) >= rc_expected

\* the loop has read a blank line while it held a buffer below the expected
\* width and a non-blank line remains: nothing is flushed, the buffer is kept
C24_Witness ==
    /\ entry = "correct_csv"
    /\ pc = "repair"
    /\ pos >= 2
    /\ pos < Len(file)
    /\ IsBlank(InLines[pos])
    /\ ~IsBlank(InLines[pos + 1])
    /\ src.buf # << >>
    /\ Fields(rc.current_buffer) < rc_expected
    /\ DataRecords = {}

\* the repair has returned a record merged across a blank line
C24_WitnessAcrossBlank ==
    /\ Corrected
    /\ \E k \in DataRecords :
           /\ Len(src.out[k]) >= 2
           /\ src.out[k][2] > src.out[k][1] + 1
           /\ Fields(OutLines[k]) >= rc_expected

\* the repair has returned a merged record that a non-blank line follows
C24_WitnessFollowed ==
    /\ Corrected
    /\ \E k \in DataRecords : Len(src.out[k]) >= 2 /\ NonBlankRemainsAfter(k)

(***************************************************************************)
(* The counters read_and_correct returns against the file it wrote.        *)
(***************************************************************************)
\* the records of the output assembled from two or more physical lines
AssembledRecords == {k \in 1..Len(src.out) : Assembled(k)}

\* C25: when the repair returns, lines_written is the number of records
\* (non-blank lines, header included) of the output file, and lines_corrected
\* is the number of records assembled from two or more physical lines.
C25_CountersMatchOutput ==
    Corrected =>
        /\ result[1] = CountNonBlank(OutLines)
        /\ result[2] = Cardinality(AssembledRecords)

(***************************************************************************)
(* The header trim against the expected width.                             *)
(***************************************************************************)
\* C26: the header trim removes only a surplus column: when the repair has
\* written the header, a header line of at least the expected width is
\* written with at least the expected width, and a header line of exactly the
\* expected width is written unchanged.
C26_HeaderKeepsWidth ==
    (Corrected /\ HeaderWritten) =>
        /\ Fields(InLines[RepairHeaderNum]) >= rc_expected
               => Fields(OutLines[1]) >= rc_expected
        /\ Fields(InLines[RepairHeaderNum]) = rc_expected
               => RStripNL(OutLines[1]) = RStripNL(InLines[RepairHeaderNum])

(***************************************************************************)
(* correct_csv when the analysis fails.                                    *)
(***************************************************************************)
\* the directory and the file of output_path are as before the call
OutputUntouched ==
    /\ fs = [dir |-> fs_before.dir, exists |-> fs_before.exists]
    /\ outfile = fs_before.content

\* C27: when the analysis fails inside correct_csv (empty input, or a file
\* that cannot be opened), the output directory has not been created and the
\* output file has been neither created nor truncated.
C27_FailureLeavesOutput ==
    (entry = "correct_csv" /\ pc = "raised") => OutputUntouched

\* the analysis failed on a file that cannot be opened; the output
\* directory did not exist before the call
C27_Witness ==
    /\ entry = "correct_csv"
    /\ pc = "raised"
    /\ ~readable
    /\ ~fs_before.dir

\* the analysis failed on a file without data line; the output file existed
C27_WitnessEmpty ==
    /\ entry = "correct_csv"
    /\ pc = "raised"
    /\ readable
    /\ fs_before.exists
    /\ outfile = OldContent

\* a call that did not fail has created the directory and written the file
C27_WitnessCreated ==
    /\ Corrected
    /\ ~fs_before.dir
    /\ fs = [dir |-> TRUE, exists |-> TRUE]

(***************************************************************************)
(* The line counts of the summary correct_csv logs.                        *)
(***************************************************************************)
\* correct_csv has logged its summary
Summarised == entry = "correct_csv" /\ pc = "returned"

\* C28: the line counts of the summary are the numbers of non-blank lines of
\* the input file and of the output file, also when a count meets a decode
\* error after some lines and is redone under latin-1.
C28_SummaryCounts ==
    Summarised =>
        /\ summary.original_lines_count = CountNonBlank(InLines)
        /\ summary.total_lines_corrected = CountNonBlank(OutLines)

(***************************************************************************)
(* The repair loop of src/csv_validator.py against the current one.        *)
(***************************************************************************)
\* both loops have returned
BothReturned == entry = "read_and_correct" /\ pc = "done" /\ lg.pc = "done"

\* C30: on a file without header and without blank line, under any expected
\* width, the repair loop of src/csv_validator.py and the current repair loop
\* write the same records and return the same (lines_written,
\* lines_corrected).
C30_LegacyEquivalent ==
    BothReturned =>
        /\ lg.outfile = outfile
        /\ lg.result = result

\* both loops have returned on a file in which they merged lines
C30_Witness ==
    /\ BothReturned
    /\ Len(file) >= 2
    /\ result[2] >= 1
    /\ lg.result[2] >= 1

\* both loops have returned on a file with a line above the expected width
\* followed by another line
C30_WitnessOverWidth ==
    /\ BothReturned
    /\ \E i \in 1..(Len(file) - 1) : Fields(InLines[i]) > rc_expected

\* both loops have returned after a restart under latin-1
C30_WitnessFallback ==
    /\ BothReturned
    /\ enc = FALLBACK
    /\ lg.enc = FALLBACK

=============================================================================
